---- MODULE Spec2Model ----
(***************************************************************************)
(* Model of the vibe-control orchestration core:                           *)
(*   - the approval registry and command executor (web/lib/mcp-tools.ts),  *)
(*   - the approve and execute HTTP routes,                                *)
(*   - the tool-calling loop of the agent route (web/app/api/agent).       *)
(***************************************************************************)
EXTENDS Integers, Sequences, FiniteSets, TLC

\* ------------------------------------------------------------------------
\* Bounds of the model
\* ------------------------------------------------------------------------
MaxRequests == 1
MaxTokens == 2
NumSlots == 2
MaxCallsPerTurn == 2
MaxPathLen == 4
\* entries of the directory tree below a directory that is listed
MaxNodes == 3
\* provider configs that one createChatWithFallback call goes through
MaxConfigs == 2
\* sendToolResults calls made on one chat session
MaxRounds == 2

\* ------------------------------------------------------------------------
\* Program constants
\* ------------------------------------------------------------------------
\* setTimeout(..., 5 * 60 * 1000) in requestApproval
PendingTimeoutMs == 300000
\* expires: Date.now() + 60 * 1000 in grantApproval
TokenTtlMs == 60000

\* agent route
MAX_TOOL_STEPS == 6
MAX_FILE_CHARS_FOR_MODEL == 20000
MAX_RESPONSE_CHARS == 30000

ErrInvalidRequest == "Invalid or expired approval request"
\* the two messages start with a no-entry sign in the source
ErrInvalidToken == "PERMISSION DENIED: Invalid approval token"
ErrExpiredToken == "PERMISSION DENIED: Approval token expired"
ErrMissingRequestId == "Missing request_id"
ErrMissingToken == "Missing approval_token"
ErrMissingCommand == "Missing command"

\* ------------------------------------------------------------------------
\* Inputs
\* ------------------------------------------------------------------------
\* a falsy request_id / approval_token of a request body
Missing == 0
\* an identifier that generateRequestId / generateToken never produced
UnknownId == MaxRequests + MaxTokens + 1
Commands == {"npm test", "grep 'PERMISSION DENIED' app.log"}
Reasons == {"run tests"}
\* what execSync does with a command: returns its output, or throws
ExecOutcomes == {"ok", "Command failed"}
\* the message of the error execSync throws when the command fails: Node builds it
\* as "Command failed: " followed by the command (and its stderr output)
execSyncMessage(command, outcome) ==
    CASE outcome = "ok" -> ""
      [] command = "npm test" -> "Command failed: npm test"
      [] command = "grep 'PERMISSION DENIED' app.log" ->
            "Command failed: grep 'PERMISSION DENIED' app.log"
      [] OTHER -> "Command failed"

VARIABLES
    pendingApprovals,   \* Map requestId -> {action, reason, command, timestamp}
    activeTokens,       \* Map token -> {requestId, command, expires}
    timers,             \* setTimeout callbacks scheduled and not yet run
    now,                \* Date.now()
    requests,           \* every approval requested so far, by request id (ids are 1..Len(requests))
    issued,             \* every token minted so far, by token (tokens are 1..Len(issued))
    slots,              \* approve/execute route handlers suspended in `await request.json()`
    execLog,            \* the execSync invocations made, in order
    presented,          \* tokens that some runTerminal call has looked up
    last                \* the operation completed by the latest step, and its outcome

regVars == <<pendingApprovals, activeTokens, timers, now, requests, issued,
             slots, execLog, presented, last>>

\* one agent request (POST /api/agent) and the locals of its tool-calling loop
VARIABLES
    pc,                     \* where the handler is: "idle", "head", "dispatch", "done"
    currentTurn,            \* {text, functionCalls} of the latest ModelTurn
    step,
    textParts,              \* the lengths of the collected model texts, in order
    textChars,
    fallbackText,
    sawExecuteCommand,
    notedModelTruncation,
    stopReason,
    functionResults,        \* the results of the calls dispatched in the current step
    callIdx,                \* the next call of currentTurn.functionCalls to dispatch
    sendCount,              \* sendToolResults calls made so far
    dispatchSteps,          \* loop iterations that dispatched tool calls so far
    response                \* the HTTP response, once the handler has returned

loopVars == <<pc, currentTurn, step, textParts, textChars, fallbackText, sawExecuteCommand,
              notedModelTruncation, stopReason, functionResults, callIdx, sendCount,
              dispatchSteps, response>>

\* the provider fallback of an agent request (createChatWithFallback)
VARIABLES
    env,                    \* process.env: the credential variables
    providers,              \* the ProviderConfigs returned by getAvailableProviders
    fbIdx,                  \* the config that `for (const config of providers)` is at
    attempts,               \* the configs a session was created for and sent the
                            \* user's message, in order
    chatSession,            \* the config of the session returned (0: none)
    toolResultsTo           \* the sessions that were sent tool results

fallbackVars == <<env, providers, fbIdx, attempts, chatSession, toolResultsTo>>

\* the latest call of resolveWorkspacePath / handleToolCall / workspaceList with its
\* inputs and result
VARIABLES resolveCall, toolCall, listCall

\* one createChatWithFallback call over the OpenAI-compatible and Anthropic adapters,
\* and the chat session it returns
VARIABLES
    history,                \* the caller's `history` array
    chatConfigs,            \* the provider family of each config of `providers`, in order
    chatIdx,                \* the config that `for (const config of providers)` is at
    chatPc,                 \* "idle", "fallback", "chat", "failed"
    messages,               \* the `messages` array of the session created last
    modelTurn,              \* the ModelTurn the session returned last
    nextCallId,             \* the next tool-call identifier a vendor emits
    vendorLog               \* the requests the vendors received, in order, each with
                            \* the results it submits and the tool-call identifiers
                            \* the vendor emitted in its answer

adapterVars == <<history, chatConfigs, chatIdx, chatPc, messages, modelTurn, nextCallId,
                 vendorLog>>

sandboxVars == <<resolveCall, toolCall, listCall, adapterVars>>

\* ------------------------------------------------------------------------
\* Map helpers (Map.set / Map.delete)
\* ------------------------------------------------------------------------
MapSet(m, k, v) == [x \in (DOMAIN m) \cup {k} |-> IF x = k THEN v ELSE m[x]]
MapDelete(m, k) == [x \in (DOMAIN m) \ {k} |-> m[x]]
EmptyMap == [x \in {} |-> 0]

\* ids and tokens are random hex strings in the source; they are modelled as
\* fresh integers (no collision between two generated values)
generateRequestId == Len(requests) + 1
generateToken == Len(issued) + 1

IdleSlot == [route |-> "idle", request_id |-> Missing, approval_token |-> Missing,
             command |-> "", cwd |-> ""]
NoLast == [route |-> "none", request_id |-> Missing, approval_token |-> Missing,
           command |-> "", status |-> 0, error |-> "", minted |-> Missing,
           ran |-> "", tokenWas |-> "none", idWas |-> "none", seenBefore |-> FALSE]

\* ------------------------------------------------------------------------
\* mcp-tools.ts
\* ------------------------------------------------------------------------
requestApproval(action, reason, command) ==
    LET requestId == generateRequestId
        entry == [action |-> action, reason |-> reason, command |-> command, timestamp |-> now]
    IN
    /\ pendingApprovals' = MapSet(pendingApprovals, requestId, entry)
    /\ timers' = timers \cup {[requestId |-> requestId, due |-> now + PendingTimeoutMs]}
    /\ requests' = Append(requests, entry)

\* grantApproval without `pendingApprovals.delete(requestId)`
grantApprovalKeepsPending(requestId) ==
    IF requestId \notin DOMAIN pendingApprovals
    THEN [ok |-> FALSE, error |-> ErrInvalidRequest, token |-> Missing,
          pending |-> pendingApprovals, active |-> activeTokens, issued |-> issued]
    ELSE LET pending == pendingApprovals[requestId]
             token == generateToken
             data == [requestId |-> requestId, command |-> pending.command,
                      expires |-> now + TokenTtlMs]
         IN [ok |-> TRUE, error |-> "", token |-> token,
             pending |-> pendingApprovals,
             active |-> MapSet(activeTokens, token, data),
             issued |-> Append(issued, data)]

\* grantApproval that empties pendingApprovals
grantApprovalClearsPending(requestId) ==
    IF requestId \notin DOMAIN pendingApprovals
    THEN [ok |-> FALSE, error |-> ErrInvalidRequest, token |-> Missing,
          pending |-> pendingApprovals, active |-> activeTokens, issued |-> issued]
    ELSE LET pending == pendingApprovals[requestId]
             token == generateToken
             data == [requestId |-> requestId, command |-> pending.command,
                      expires |-> now + TokenTtlMs]
         IN [ok |-> TRUE, error |-> "", token |-> token,
             pending |-> EmptyMap,
             active |-> MapSet(activeTokens, token, data),
             issued |-> Append(issued, data)]

\* the result of grantApproval(requestId) on the current registries
grantApproval(requestId) ==
    IF requestId \notin DOMAIN pendingApprovals
    THEN [ok |-> FALSE, error |-> ErrInvalidRequest, token |-> Missing,
          pending |-> pendingApprovals, active |-> activeTokens, issued |-> issued]
    ELSE LET pending == pendingApprovals[requestId]
             token == generateToken
             data == [requestId |-> requestId, command |-> pending.command,
                      expires |-> now + TokenTtlMs]
         IN [ok |-> TRUE, error |-> "", token |-> token,
             pending |-> MapDelete(pendingApprovals, requestId),
             active |-> MapSet(activeTokens, token, data),
             issued |-> Append(issued, data)]

\* the directories of the machine that a working directory can name: the workspace
\* root, the directory the server runs in (below the root), a directory outside the root
WorkspaceRoot == "/workspace"
\* `cwd` of the body of an execute request ("": left out)
Cwds == {"", WorkspaceRoot, "/etc"}

\* `const workDir = cwd || process.cwd()`, the server running in /workspace/web
workDir(cwd) == IF cwd = "" THEN "/workspace/web" ELSE cwd

\* runTerminal without the one-time-use `activeTokens.delete(approvalToken)`
runTerminalKeepsToken(command, approvalToken, cwd, outcome) ==
    IF approvalToken \notin DOMAIN activeTokens
    THEN [ok |-> FALSE, error |-> ErrInvalidToken, active |-> activeTokens, exec |-> <<>>]
    ELSE IF now > activeTokens[approvalToken].expires
    THEN [ok |-> FALSE, error |-> ErrExpiredToken,
          active |-> MapDelete(activeTokens, approvalToken), exec |-> <<>>]
    ELSE [ok |-> outcome = "ok", error |-> execSyncMessage(command, outcome),
          active |-> activeTokens,
          exec |-> <<[token |-> approvalToken, command |-> command,
                    cwd |-> workDir(cwd)]>>]

\* runTerminal without the expiry check
runTerminalIgnoresExpiry(command, approvalToken, cwd, outcome) ==
    IF approvalToken \notin DOMAIN activeTokens
    THEN [ok |-> FALSE, error |-> ErrInvalidToken, active |-> activeTokens, exec |-> <<>>]
    ELSE [ok |-> outcome = "ok", error |-> execSyncMessage(command, outcome),
          active |-> MapDelete(activeTokens, approvalToken),
          exec |-> <<[token |-> approvalToken, command |-> command,
                    cwd |-> workDir(cwd)]>>]

\* runTerminal that leaves an expired token in activeTokens
runTerminalKeepsExpired(command, approvalToken, cwd, outcome) ==
    IF approvalToken \notin DOMAIN activeTokens
    THEN [ok |-> FALSE, error |-> ErrInvalidToken, active |-> activeTokens, exec |-> <<>>]
    ELSE IF now > activeTokens[approvalToken].expires
    THEN [ok |-> FALSE, error |-> ErrExpiredToken,
          active |-> activeTokens, exec |-> <<>>]
    ELSE [ok |-> outcome = "ok", error |-> execSyncMessage(command, outcome),
          active |-> MapDelete(activeTokens, approvalToken),
          exec |-> <<[token |-> approvalToken, command |-> command,
                    cwd |-> workDir(cwd)]>>]

\* runTerminal with `Date.now() >= tokenData.expires`
runTerminalExpiresEarly(command, approvalToken, cwd, outcome) ==
    IF approvalToken \notin DOMAIN activeTokens
    THEN [ok |-> FALSE, error |-> ErrInvalidToken, active |-> activeTokens, exec |-> <<>>]
    ELSE IF now >= activeTokens[approvalToken].expires
    THEN [ok |-> FALSE, error |-> ErrExpiredToken,
          active |-> MapDelete(activeTokens, approvalToken), exec |-> <<>>]
    ELSE [ok |-> outcome = "ok", error |-> execSyncMessage(command, outcome),
          active |-> MapDelete(activeTokens, approvalToken),
          exec |-> <<[token |-> approvalToken, command |-> command,
                    cwd |-> workDir(cwd)]>>]

\* runTerminal that deletes the token only after execSync has returned
runTerminalDeletesAfterRun(command, approvalToken, cwd, outcome) ==
    IF approvalToken \notin DOMAIN activeTokens
    THEN [ok |-> FALSE, error |-> ErrInvalidToken, active |-> activeTokens, exec |-> <<>>]
    ELSE IF now > activeTokens[approvalToken].expires
    THEN [ok |-> FALSE, error |-> ErrExpiredToken,
          active |-> MapDelete(activeTokens, approvalToken), exec |-> <<>>]
    ELSE [ok |-> outcome = "ok", error |-> execSyncMessage(command, outcome),
          active |-> IF outcome = "ok" THEN MapDelete(activeTokens, approvalToken)
                     ELSE activeTokens,
          exec |-> <<[token |-> approvalToken, command |-> command,
                    cwd |-> workDir(cwd)]>>]

\* the result of runTerminal(command, approvalToken, cwd) on the current registries,
\* where outcome is what execSync does if it is reached
runTerminal(command, approvalToken, cwd, outcome) ==
    IF approvalToken \notin DOMAIN activeTokens
    THEN [ok |-> FALSE, error |-> ErrInvalidToken, active |-> activeTokens, exec |-> <<>>]
    ELSE IF now > activeTokens[approvalToken].expires
    THEN [ok |-> FALSE, error |-> ErrExpiredToken,
          active |-> MapDelete(activeTokens, approvalToken), exec |-> <<>>]
    ELSE [ok |-> outcome = "ok", error |-> execSyncMessage(command, outcome),
          active |-> MapDelete(activeTokens, approvalToken),
          exec |-> <<[token |-> approvalToken, command |-> command,
                    cwd |-> workDir(cwd)]>>]

\* ------------------------------------------------------------------------
\* State of a request id / token as the registries and the clock define it
\* ------------------------------------------------------------------------
Granted(requestId) == \E t \in 1..Len(issued) : issued[t].requestId = requestId

IdState(requestId) ==
    IF requestId \in DOMAIN pendingApprovals THEN "pending"
    ELSE IF Granted(requestId) THEN "granted"
    ELSE IF requestId \in 1..Len(requests) THEN "expired"
    ELSE "unknown"

TokenState(token) ==
    IF token \notin 1..Len(issued) THEN "unknown"
    ELSE IF token \notin DOMAIN activeTokens THEN "gone"
    ELSE IF now > issued[token].expires THEN "expired"
    ELSE "live"

\* error.message.includes("PERMISSION DENIED") of the execute route
IncludesPermissionDenied(msg) ==
    msg \in {ErrInvalidToken, ErrExpiredToken,
             "Command failed: grep 'PERMISSION DENIED' app.log"}

\* ------------------------------------------------------------------------
\* Registry-level actions
\* ------------------------------------------------------------------------
\* handleToolCall, case "execute_command", running the command itself
handleExecuteCommandRuns(reason, command) ==
    /\ requestApproval("terminal_run", reason, command)
    /\ last' = [NoLast EXCEPT !.route = "tool", !.request_id = generateRequestId,
                              !.command = command, !.status = 200]
    /\ execLog' = Append(execLog, [token |-> Missing, command |-> command, cwd |-> ""])
    /\ UNCHANGED <<activeTokens, now, issued, slots, presented>>

\* handleToolCall, case "execute_command": the only caller of requestApproval
handleExecuteCommand(reason, command) ==
    /\ requestApproval("terminal_run", reason, command)
    /\ last' = [NoLast EXCEPT !.route = "tool", !.request_id = generateRequestId,
                              !.command = command, !.status = 200]
    /\ UNCHANGED <<activeTokens, now, issued, slots, execLog, presented>>

\* an execute_command tool call dispatched by the loop of some agent request
ToolExecuteCommand ==
    /\ Len(requests) < MaxRequests
    /\ \E reason \in Reasons, command \in Commands : handleExecuteCommand(reason, command)
    /\ UNCHANGED <<loopVars, fallbackVars, sandboxVars>>

\* a timer callback that also deletes the tokens that have expired
TimerFireSweeps ==
    \E tm \in timers :
        /\ now >= tm.due
        /\ pendingApprovals' = MapDelete(pendingApprovals, tm.requestId)
        /\ activeTokens' = [t \in {u \in DOMAIN activeTokens : now <= activeTokens[u].expires}
                               |-> activeTokens[t]]
        /\ timers' = timers \ {tm}
        /\ last' = NoLast
        /\ UNCHANGED <<now, requests, issued, slots, execLog, presented>>
        /\ UNCHANGED <<loopVars, fallbackVars, sandboxVars>>

\* an execute_command tool call while another approval request may be in the
\* registries: one request more than ToolExecuteCommand allows
ToolExecuteCommandNext ==
    /\ Len(requests) < MaxRequests + 1
    /\ \E reason \in Reasons, command \in Commands : handleExecuteCommand(reason, command)
    /\ UNCHANGED <<loopVars, fallbackVars, sandboxVars>>

\* the callback of setTimeout(() => pendingApprovals.delete(requestId), 5 min);
\* setTimeout runs it no earlier than its due time
TimerFire ==
    \E tm \in timers :
        /\ now >= tm.due
        /\ pendingApprovals' = MapDelete(pendingApprovals, tm.requestId)
        /\ timers' = timers \ {tm}
        /\ last' = NoLast
        /\ UNCHANGED <<activeTokens, now, requests, issued, slots, execLog, presented>>
        /\ UNCHANGED <<loopVars, fallbackVars, sandboxVars>>

\* the instants at which a deadline of the registries is reached or just passed:
\* a timer's due time, a token's expiry (still valid) and the millisecond after it
Deadlines ==
    {tm.due : tm \in timers}
        \cup {activeTokens[t].expires : t \in DOMAIN activeTokens}
        \cup {activeTokens[t].expires + 1 : t \in DOMAIN activeTokens}

\* the clock advances; the code reads it only to compare it with these deadlines,
\* so it is advanced from one of them to a later one
Tick ==
    \E x \in Deadlines :
        /\ x > now
        /\ now' = x
        /\ last' = NoLast
        /\ UNCHANGED <<pendingApprovals, activeTokens, timers, requests, issued, slots,
                       execLog, presented>>
        /\ UNCHANGED <<loopVars, fallbackVars, sandboxVars>>

\* POST /api/approve with the parsed body {request_id}: grantApproval has no
\* await inside, so the handler runs from the parsed body to its response in one step
ApproveHandler(body) ==
    /\ Len(issued) < MaxTokens
    /\ LET id == body.request_id
           r == grantApproval(id)
           base == [NoLast EXCEPT !.route = "approve", !.request_id = id,
                                  !.idWas = IdState(id), !.seenBefore = Granted(id)]
       IN IF id = Missing
          THEN /\ last' = [base EXCEPT !.status = 400, !.error = ErrMissingRequestId]
               /\ UNCHANGED <<pendingApprovals, activeTokens, issued>>
          ELSE /\ pendingApprovals' = r.pending
               /\ activeTokens' = r.active
               /\ issued' = r.issued
               /\ last' = [base EXCEPT !.status = IF r.ok THEN 200 ELSE 500,
                                       !.error = r.error, !.minted = r.token]
    /\ UNCHANGED <<timers, now, requests, execLog, presented>>
    /\ UNCHANGED <<loopVars, fallbackVars, sandboxVars>>

\* POST /api/execute with the parsed body {command, approval_token, cwd}: runTerminal
\* has no await inside and execSync blocks, so the handler runs to its response in one step
ExecuteHandler(body, outcome) ==
    /\ LET tok == body.approval_token
           command == body.command
           r == runTerminal(command, tok, body.cwd, outcome)
           base == [NoLast EXCEPT !.route = "execute", !.approval_token = tok,
                                  !.command = command]
       IN IF tok = Missing
          THEN /\ last' = [base EXCEPT !.status = 400, !.error = ErrMissingToken]
               /\ UNCHANGED <<activeTokens, execLog, presented>>
          ELSE IF command = ""
          THEN /\ last' = [base EXCEPT !.status = 400, !.error = ErrMissingCommand]
               /\ UNCHANGED <<activeTokens, execLog, presented>>
          ELSE /\ activeTokens' = r.active
               /\ execLog' = execLog \o r.exec
               /\ presented' = presented \cup ({tok} \cap (1..Len(issued)))
               /\ last' = [base EXCEPT
                             !.status = IF r.ok THEN 200
                                        ELSE IF IncludesPermissionDenied(r.error) THEN 403
                                        ELSE 500,
                             !.error = r.error,
                             !.ran = IF r.exec = <<>> THEN "" ELSE r.exec[1].command,
                             !.tokenWas = TokenState(tok),
                             !.seenBefore = tok \in presented]
    /\ UNCHANGED <<pendingApprovals, timers, now, requests, issued>>
    /\ UNCHANGED <<loopVars, fallbackVars, sandboxVars>>

ApproveBodies ==
    {[IdleSlot EXCEPT !.route = "approve", !.request_id = id] :
        id \in {Missing, UnknownId} \cup (1..Len(requests))}

ExecuteBodies ==
    {[IdleSlot EXCEPT !.route = "execute", !.approval_token = tok, !.command = command] :
        tok \in {Missing, UnknownId} \cup (1..Len(issued)), command \in Commands \cup {""}}

\* a whole approve request, from its arrival to its response
Approve ==
    /\ \E body \in ApproveBodies : ApproveHandler(body)
    /\ UNCHANGED slots

\* what execSync can do in the handler of a request body: it has an outcome only
\* when the handler reaches it
ExecOutcomesOf(body) ==
    IF body.approval_token = Missing \/ body.command = ""
       \/ runTerminal(body.command, body.approval_token, body.cwd, "ok").exec = <<>>
    THEN {"ok"}
    ELSE ExecOutcomes

\* a whole execute request, from its arrival to its response
Execute ==
    /\ \E body \in ExecuteBodies :
          \E outcome \in ExecOutcomesOf(body) : ExecuteHandler(body, outcome)
    /\ UNCHANGED slots

\* a whole execute request whose body names a working directory
ExecuteIn ==
    /\ \E body \in ExecuteBodies, cwd \in Cwds :
          \E outcome \in ExecOutcomesOf(body) :
              ExecuteHandler([body EXCEPT !.cwd = cwd], outcome)
    /\ UNCHANGED slots

\* ------------------------------------------------------------------------
\* The same routes with their suspension point: a handler is suspended in
\* `await request.json()` while other handlers, timers and the clock run
\* ------------------------------------------------------------------------
ApproveReceive ==
    \E s \in 1..NumSlots, body \in ApproveBodies :
        /\ slots[s].route = "idle"
        /\ slots' = [slots EXCEPT ![s] = body]
        /\ last' = NoLast
        /\ UNCHANGED <<pendingApprovals, activeTokens, timers, now, requests, issued,
                       execLog, presented>>
        /\ UNCHANGED <<loopVars, fallbackVars, sandboxVars>>

ApproveResume ==
    \E s \in 1..NumSlots :
        /\ slots[s].route = "approve"
        /\ ApproveHandler(slots[s])
        /\ slots' = [slots EXCEPT ![s] = IdleSlot]

ExecuteReceive ==
    \E s \in 1..NumSlots, body \in ExecuteBodies :
        /\ slots[s].route = "idle"
        /\ slots' = [slots EXCEPT ![s] = body]
        /\ last' = NoLast
        /\ UNCHANGED <<pendingApprovals, activeTokens, timers, now, requests, issued,
                       execLog, presented>>
        /\ UNCHANGED <<loopVars, fallbackVars, sandboxVars>>

ExecuteResume ==
    \E s \in 1..NumSlots, outcome \in ExecOutcomes :
        /\ slots[s].route = "execute"
        /\ outcome \in ExecOutcomesOf(slots[s])
        /\ ExecuteHandler(slots[s], outcome)
        /\ slots' = [slots EXCEPT ![s] = IdleSlot]

\* ------------------------------------------------------------------------
\* The path sandbox of the agent route (POSIX host)
\* ------------------------------------------------------------------------
\* A path string is the sequence of its characters; an absolute path that has been
\* resolved is the sequence of its names from the filesystem root.
Chars == {"/", "\\", ".", " ", "a", "l"}

RECURSIVE StringsUpTo(_)
StringsUpTo(n) ==
    IF n = 0 THEN {<<>>}
    ELSE LET shorter == StringsUpTo(n - 1)
         IN shorter \cup {Append(q, c) : q \in {r \in shorter : Len(r) = n - 1}, c \in Chars}

\* a tool argument that is not a string (an omitted `path` / `cwd`)
Undefined == <<"undefined">>
\* the values a model can pass as a path argument
PathInputs == StringsUpTo(MaxPathLen) \cup {Undefined}

DotDot == <<".", ".">>
Dot == <<".">>
\* normalize(realpathSync(resolve(DEFAULT_WORKSPACE))), and a directory beside it
WORKSPACE_ROOT_REAL == << <<"w">> >>
OutsideDir == << <<"o">> >>

\* The filesystems a call can meet.  Below the workspace root `a` is absent, a file
\* or a directory (holding a file `a`), and `l` is absent or a symbolic link: to the
\* directory beside the root (which holds a file `a`), to `a`, or to itself.
FileSystems == [a : {"absent", "file", "dir"}, l : {"absent", "toOut", "toA", "loop"}]

Entry(fs, dir, name) ==
    IF dir = <<>> THEN (IF name \in {<<"w">>, <<"o">>} THEN "dir" ELSE "absent")
    ELSE IF dir = WORKSPACE_ROOT_REAL
    THEN (IF name = <<"a">> THEN fs.a ELSE IF name = <<"l">> THEN fs.l ELSE "absent")
    ELSE IF dir \in {OutsideDir, Append(WORKSPACE_ROOT_REAL, <<"a">>)}
    THEN (IF name = <<"a">> THEN "file" ELSE "absent")
    ELSE "absent"

\* String.prototype.trim
RECURSIVE TrimStart(_)
TrimStart(str) == IF str # <<>> /\ Head(str) = " " THEN TrimStart(Tail(str)) ELSE str
RECURSIVE TrimEnd(_)
TrimEnd(str) ==
    IF str # <<>> /\ str[Len(str)] = " " THEN TrimEnd(SubSeq(str, 1, Len(str) - 1)) ELSE str
trim(str) == TrimEnd(TrimStart(str))

\* str.split(/[seps]+/): the pieces between maximal runs of separators
RECURSIVE SplitFrom(_, _, _, _, _)
SplitFrom(str, seps, i, piece, inRun) ==
    IF i > Len(str) THEN <<piece>>
    ELSE IF str[i] \in seps
    THEN IF inRun THEN SplitFrom(str, seps, i + 1, piece, TRUE)
         ELSE <<piece>> \o SplitFrom(str, seps, i + 1, <<>>, TRUE)
    ELSE SplitFrom(str, seps, i + 1, Append(piece, str[i]), FALSE)
split(str, seps) == SplitFrom(str, seps, 1, <<>>, FALSE)

Includes(segments, x) == \E i \in 1..Len(segments) : segments[i] = x

\* path.isAbsolute
isAbsolute(str) == str # <<>> /\ Head(str) = "/"

\* path.normalize of the names of an absolute path: "" and "." are dropped, ".."
\* removes the name before it
RECURSIVE normalizeNames(_, _)
normalizeNames(names, acc) ==
    IF names = <<>> THEN acc
    ELSE LET x == Head(names) IN
         IF x = <<>> \/ x = Dot THEN normalizeNames(Tail(names), acc)
         ELSE IF x = DotDot
         THEN normalizeNames(Tail(names),
                             IF acc = <<>> THEN acc ELSE SubSeq(acc, 1, Len(acc) - 1))
         ELSE normalizeNames(Tail(names), Append(acc, x))

\* path.resolve(root, str) for an absolute root: only "/" separates names
resolve(root, str) ==
    IF isAbsolute(str) THEN normalizeNames(split(str, {"/"}), <<>>)
    ELSE normalizeNames(split(str, {"/"}), root)

\* path.relative(from, to) of two normalized absolute paths, as a sequence of names
RECURSIVE relative(_, _)
relative(from, to) ==
    IF from # <<>> /\ to # <<>> /\ Head(from) = Head(to)
    THEN relative(Tail(from), Tail(to))
    ELSE [i \in 1..Len(from) |-> DotDot] \o to

isOutsideWorkspace(absolutePath) ==
    LET rel == relative(WORKSPACE_ROOT_REAL, normalizeNames(absolutePath, <<>>))
    IN IF rel = <<>> THEN FALSE ELSE Head(rel) = DotDot

\* fs.realpathSync: the names are followed from the filesystem root, symbolic links
\* are replaced by their targets; it throws ENOENT, ENOTDIR or ELOOP
RECURSIVE realpathFrom(_, _, _)
realpathFrom(fs, dir, names) ==
    IF names = <<>> THEN [code |-> "ok", path |-> dir]
    ELSE LET name == Head(names)
             rest == Tail(names)
             entry == Entry(fs, dir, name)
             target == IF entry = "toOut" THEN OutsideDir
                       ELSE IF entry = "toA" THEN Append(WORKSPACE_ROOT_REAL, <<"a">>)
                       ELSE Append(dir, name)
             kind == IF entry = "toOut" THEN "dir"
                     ELSE IF entry = "toA" THEN fs.a
                     ELSE entry
         IN CASE kind = "absent" -> [code |-> "ENOENT", path |-> <<>>]
              [] kind = "loop" -> [code |-> "ELOOP", path |-> <<>>]
              [] kind = "file" -> IF rest = <<>> THEN [code |-> "ok", path |-> target]
                                  ELSE [code |-> "ENOTDIR", path |-> <<>>]
              [] OTHER -> realpathFrom(fs, target, rest)
realpathSync(fs, absolutePath) == realpathFrom(fs, <<>>, absolutePath)

\* what resolveWorkspacePath throws
ErrPathRequired == "A non-empty workspace-relative path is required."
ErrParentRef == "Parent directory references (..) are not allowed in workspace-relative paths."
ErrAbsolute == "Absolute paths are not allowed. Use a path relative to the workspace root instead."
ErrOutside == "is outside the workspace root."
ErrNotExist == "does not exist inside the workspace."
ErrSymlinkEscape == "resolves outside the workspace root (possible symlink escape)."
PathViolations == {ErrParentRef, ErrAbsolute, ErrOutside, ErrSymlinkEscape}

PathOk(path, calls) == [ok |-> TRUE, path |-> path, error |-> "", realpathCalls |-> calls]
PathError(error, calls) == [ok |-> FALSE, path |-> <<>>, error |-> error, realpathCalls |-> calls]

\* resolveWorkspacePath without the second isOutsideWorkspace check
resolveWorkspacePathNoRecheck(fs, maybePath, allowDefaultRoot) ==
    IF maybePath = Undefined \/ trim(maybePath) = <<>>
    THEN (IF allowDefaultRoot THEN PathOk(WORKSPACE_ROOT_REAL, <<>>)
          ELSE PathError(ErrPathRequired, <<>>))
    ELSE LET inputPath == trim(maybePath)
             segments == split(inputPath, {"/", "\\"})
             candidate == resolve(WORKSPACE_ROOT_REAL, inputPath)
             real == realpathSync(fs, candidate)
         IN IF inputPath \in {<<".">>, <<".", "/">>, <<".", "\\">>}
            THEN (IF allowDefaultRoot THEN PathOk(WORKSPACE_ROOT_REAL, <<>>)
                  ELSE PathError(ErrPathRequired, <<>>))
            ELSE IF Includes(segments, DotDot) THEN PathError(ErrParentRef, <<>>)
            ELSE IF isAbsolute(inputPath) THEN PathError(ErrAbsolute, <<>>)
            ELSE IF isOutsideWorkspace(candidate) THEN PathError(ErrOutside, <<>>)
            ELSE IF real.code = "ENOENT" THEN PathError(ErrNotExist, <<candidate>>)
            ELSE IF real.code # "ok" THEN PathError(real.code, <<candidate>>)
            ELSE PathOk(real.path, <<candidate>>)

\* resolveWorkspacePath without the `segments.includes("..")` check
resolveWorkspacePathNoParentCheck(fs, maybePath, allowDefaultRoot) ==
    IF maybePath = Undefined \/ trim(maybePath) = <<>>
    THEN (IF allowDefaultRoot THEN PathOk(WORKSPACE_ROOT_REAL, <<>>)
          ELSE PathError(ErrPathRequired, <<>>))
    ELSE LET inputPath == trim(maybePath)
             segments == split(inputPath, {"/", "\\"})
             candidate == resolve(WORKSPACE_ROOT_REAL, inputPath)
             real == realpathSync(fs, candidate)
         IN IF inputPath \in {<<".">>, <<".", "/">>, <<".", "\\">>}
            THEN (IF allowDefaultRoot THEN PathOk(WORKSPACE_ROOT_REAL, <<>>)
                  ELSE PathError(ErrPathRequired, <<>>))
            ELSE IF isAbsolute(inputPath) THEN PathError(ErrAbsolute, <<>>)
            ELSE IF isOutsideWorkspace(candidate) THEN PathError(ErrOutside, <<>>)
            ELSE IF real.code = "ENOENT" THEN PathError(ErrNotExist, <<candidate>>)
            ELSE IF real.code # "ok" THEN PathError(real.code, <<candidate>>)
            ELSE IF isOutsideWorkspace(real.path)
            THEN PathError(ErrSymlinkEscape, <<candidate>>)
            ELSE PathOk(real.path, <<candidate>>)

\* resolveWorkspacePath(maybePath, {allowDefaultRoot}) on a filesystem fs: the path it
\* returns or the error it throws, and the paths it passed to realpathSync
resolveWorkspacePath(fs, maybePath, allowDefaultRoot) ==
    IF maybePath = Undefined \/ trim(maybePath) = <<>>
    THEN (IF allowDefaultRoot THEN PathOk(WORKSPACE_ROOT_REAL, <<>>)
          ELSE PathError(ErrPathRequired, <<>>))
    ELSE LET inputPath == trim(maybePath)
             segments == split(inputPath, {"/", "\\"})
             candidate == resolve(WORKSPACE_ROOT_REAL, inputPath)
             real == realpathSync(fs, candidate)
         IN IF inputPath \in {<<".">>, <<".", "/">>, <<".", "\\">>}
            THEN (IF allowDefaultRoot THEN PathOk(WORKSPACE_ROOT_REAL, <<>>)
                  ELSE PathError(ErrPathRequired, <<>>))
            ELSE IF Includes(segments, DotDot) THEN PathError(ErrParentRef, <<>>)
            ELSE IF isAbsolute(inputPath) THEN PathError(ErrAbsolute, <<>>)
            ELSE IF isOutsideWorkspace(candidate) THEN PathError(ErrOutside, <<>>)
            ELSE IF real.code = "ENOENT" THEN PathError(ErrNotExist, <<candidate>>)
            ELSE IF real.code # "ok" THEN PathError(real.code, <<candidate>>)
            ELSE IF isOutsideWorkspace(real.path)
            THEN PathError(ErrSymlinkEscape, <<candidate>>)
            ELSE PathOk(real.path, <<candidate>>)

NoResolveCall == [fs |-> [a |-> "absent", l |-> "absent"], maybePath |-> Undefined,
                  allowDefaultRoot |-> TRUE, called |-> FALSE,
                  result |-> PathError("", <<>>)]

\* ------------------------------------------------------------------------
\* handleToolCall
\* ------------------------------------------------------------------------
Min(a, b) == IF a <= b THEN a ELSE b

\* a string left whole where the code cuts it
sliceAll(len, end) == len

\* length of `str.slice(0, end)` for a string of len characters
slice(len, end) == Min(len, end)

\* the tools whose `path` / `cwd` argument goes through resolveWorkspacePath
PathTools == {"list_workspace_files", "read_file", "get_git_status", "get_git_diff"}
\* content.length of the file that read_file reads
FileChars == {0, MAX_FILE_CHARS_FOR_MODEL - 1, MAX_FILE_CHARS_FOR_MODEL,
              MAX_FILE_CHARS_FOR_MODEL + 1, 2 * MAX_FILE_CHARS_FOR_MODEL + 1}

\* what a canonical path names: a file or a directory
KindAt(fs, path) ==
    IF Len(path) <= 1 THEN "dir"
    ELSE Entry(fs, SubSeq(path, 1, Len(path) - 1), path[Len(path)])

NoToolResult == [kind |-> "none", error |-> "", truncated |-> FALSE, totalChars |-> 0,
                 omittedChars |-> 0, contentChars |-> 0, collabCalls |-> <<>>,
                 realpathCalls |-> <<>>]

\* path.resolve(root, args.path) handed on without the sandbox checks
resolvedForUnchecked(fs, name, pathArg) ==
    PathOk(IF pathArg = Undefined THEN WORKSPACE_ROOT_REAL
           ELSE resolve(WORKSPACE_ROOT_REAL, trim(pathArg)), <<>>)

\* `content.length >= MAX_FILE_CHARS_FOR_MODEL`
wasTruncatedAtLimit(contentLength) == contentLength >= MAX_FILE_CHARS_FOR_MODEL

\* `const wasTruncated = content.length > MAX_FILE_CHARS_FOR_MODEL`
wasTruncated(contentLength) == contentLength > MAX_FILE_CHARS_FOR_MODEL

\* read_file calling resolveWorkspacePath(args.path) without its options
resolvedForDefaulting(fs, name, pathArg) == resolveWorkspacePath(fs, pathArg, TRUE)

\* the resolveWorkspacePath call of a tool: only read_file passes allowDefaultRoot: false
resolvedFor(fs, name, pathArg) == resolveWorkspacePath(fs, pathArg, name # "read_file")

\* the `try { switch (name) ... }` of handleToolCall: the result it returns, or what is
\* thrown inside it (kind "throw").  pathArg is args.path / args.cwd, fileChars the
\* length of the file read.  workspaceList, gitStatus and gitDiff catch their own
\* failures; workspaceRead throws when the path is not a readable file.
toolTry(fs, name, pathArg, fileChars) ==
    LET r == resolvedFor(fs, name, pathArg)
        base == [NoToolResult EXCEPT !.realpathCalls = r.realpathCalls]
        thrown == [base EXCEPT !.kind = "throw", !.error = r.error]
    IN CASE name \in PathTools /\ ~r.ok -> thrown
         [] name = "list_workspace_files" ->
               [base EXCEPT !.kind = "ok",
                            !.collabCalls = <<[fn |-> "workspaceList", path |-> r.path]>>]
         [] name = "read_file" ->
               LET called == [base EXCEPT
                                !.collabCalls = <<[fn |-> "workspaceRead", path |-> r.path]>>]
                   truncated == wasTruncated(fileChars)
               IN IF KindAt(fs, r.path) # "file"
                  THEN [called EXCEPT !.kind = "throw", !.error = "EISDIR"]
                  ELSE [called EXCEPT
                          !.kind = "ok",
                          !.truncated = truncated,
                          !.totalChars = fileChars,
                          !.omittedChars = IF truncated
                                           THEN fileChars - MAX_FILE_CHARS_FOR_MODEL ELSE 0,
                          !.contentChars = IF truncated
                                           THEN slice(fileChars, MAX_FILE_CHARS_FOR_MODEL)
                                           ELSE fileChars]
         [] name = "execute_command" -> [NoToolResult EXCEPT !.kind = "pending"]
         [] name = "get_git_status" ->
               [base EXCEPT !.kind = "ok",
                            !.collabCalls = <<[fn |-> "gitStatus", path |-> r.path]>>]
         [] name = "get_git_diff" ->
               [base EXCEPT !.kind = "ok",
                            !.collabCalls = <<[fn |-> "gitDiff", path |-> r.path]>>]
         [] OTHER -> [NoToolResult EXCEPT !.kind = "error", !.error = "Unknown tool"]

NoToolCall == [fs |-> [a |-> "absent", l |-> "absent"], name |-> "", pathArg |-> Undefined,
               fileChars |-> 0, result |-> NoToolResult]

\* handleToolCall without its catch clause
handleToolCallNoCatch(fs, name, pathArg, fileChars) == toolTry(fs, name, pathArg, fileChars)

\* handleToolCall: `catch (error) { return { modelResponse: { error: error.message } } }`
handleToolCall(fs, name, pathArg, fileChars) ==
    LET t == toolTry(fs, name, pathArg, fileChars)
    IN IF t.kind = "throw" THEN [t EXCEPT !.kind = "error"] ELSE t

\* ------------------------------------------------------------------------
\* mcp-tools: buildDirectoryTree and workspaceList
\* ------------------------------------------------------------------------
\* A directory entry of the filesystem: `stat` is what statSync does on it ("ENOENT":
\* it throws, as for a dangling symbolic link), `read` what readdirSync does on a
\* directory ("EACCES": it throws), `items` what readdirSync returns, in its order.
\* `target` is "outside" for a symbolic link to a file or directory outside the
\* workspace root: statSync and readdirSync follow the link, so that type, size and
\* items are those of what the link points to.
FileEntry(name, stat) ==
    [name |-> name, type |-> "file", stat |-> stat, read |-> "ENOTDIR", size |-> 1,
     items |-> <<>>, target |-> "inside"]
DirEntry(name, stat, read, items) ==
    [name |-> name, type |-> "directory", stat |-> stat, read |-> read, size |-> 0,
     items |-> items, target |-> "inside"]

\* the entries without content: a file, a dangling link, an empty or unreadable
\* directory, and the hidden and dependency-cache names
LeafEntries ==
    {FileEntry("a.txt", "ok"), FileEntry("a.txt", "ENOENT"), FileEntry(".env", "ok"),
     DirEntry("src", "ok", "ok", <<>>), DirEntry("src", "ok", "EACCES", <<>>),
     DirEntry(".git", "ok", "ok", <<>>), DirEntry("node_modules", "ok", "ok", <<>>),
     [FileEntry("passwd", "ok") EXCEPT !.target = "outside"],
     [DirEntry("ext", "ok", "ok", <<>>) EXCEPT !.target = "outside"]}

DirNames == {"src", ".git", "node_modules"}

\* the entries made of exactly n nodes, and the listings made of exactly n nodes
\* (the names of a listing are distinct)
RECURSIVE EntriesOf(_), ListingsOf(_)
EntriesOf(n) ==
    IF n = 1 THEN LeafEntries
    ELSE {DirEntry(name, "ok", read, items) :
             name \in DirNames, read \in {"ok", "EACCES"}, items \in ListingsOf(n - 1)}
         \cup {[DirEntry("ext", "ok", "ok", items) EXCEPT !.target = "outside"] :
                  items \in ListingsOf(n - 1)}
ListingsOf(n) ==
    IF n = 0 THEN {<<>>}
    ELSE UNION {{<<p[1]>> \o p[2] :
                    p \in {q \in EntriesOf(k) \X ListingsOf(n - k) :
                              \A i \in 1..Len(q[2]) : q[2][i].name # q[1].name}} :
                k \in 1..n}

\* the directories workspaceList is called on: up to maxNodes entries below them
Workspaces(maxNodes) ==
    {DirEntry("w", "ok", read, items) :
        read \in {"ok", "EACCES"}, items \in UNION {ListingsOf(n) : n \in 0..maxNodes}}

\* the `depth` argument of workspaceList: omitted, or a number
NoDepth == -1
DepthArgs == {NoDepth} \cup (0..MaxNodes)

\* `item.startsWith(".")`, on the names of the model
startsWithDot(name) == name \in {".git", ".env"}

\* buildDirectoryTree(dirPath, depth, currentDepth), dir being what dirPath names.
\* forItems is its `for (const item of items)` from the items still to visit and the
\* entries pushed so far: readdirSync and statSync are inside one try block, whose
\* empty catch leaves the loop, and the function returns the entries pushed so far.
RECURSIVE buildDirectoryTree(_, _, _), forItems(_, _, _, _)
buildDirectoryTree(dir, depth, currentDepth) ==
    IF currentDepth >= depth THEN <<>>
    ELSE IF dir.read # "ok" THEN <<>>
    ELSE forItems(dir.items, <<>>, depth, currentDepth)
forItems(items, entries, depth, currentDepth) ==
    IF items = <<>> THEN entries
    ELSE LET item == Head(items)
         IN IF startsWithDot(item.name) \/ item.name = "node_modules"
            THEN forItems(Tail(items), entries, depth, currentDepth)
            ELSE IF item.stat # "ok" THEN entries
            ELSE IF item.type = "directory"
            THEN forItems(Tail(items),
                          Append(entries,
                                 [name |-> item.name, type |-> "directory",
                                  children |-> buildDirectoryTree(item, depth,
                                                                  currentDepth + 1)]),
                          depth, currentDepth)
            ELSE forItems(Tail(items),
                          Append(entries, [name |-> item.name, type |-> "file",
                                           size |-> item.size]),
                          depth, currentDepth)

\* workspaceList(path, depth = 2)
workspaceList(dir, depth) == buildDirectoryTree(dir, IF depth = NoDepth THEN 2 ELSE depth, 0)

NoListCall == [called |-> FALSE, dir |-> DirEntry("w", "ok", "ok", <<>>), depth |-> NoDepth,
               tree |-> <<>>]

\* ------------------------------------------------------------------------
\* POST /api/agent: the tool-calling loop
\* ------------------------------------------------------------------------
\* the tool names a model asks for (get_git_diff is handled like get_git_status)
ToolNames == {"list_workspace_files", "read_file", "execute_command",
              "get_git_status", "unknown_tool"}
\* lengths of the text of a ModelTurn (0: no text): two such texts fill the budget
TextLens == {0, MAX_RESPONSE_CHARS \div 2}

RECURSIVE SeqsUpTo(_, _)
SeqsUpTo(S, n) ==
    IF n = 0 THEN {<<>>}
    ELSE LET shorter == SeqsUpTo(S, n - 1)
         IN shorter \cup {Append(q, x) : q \in {r \in shorter : Len(r) = n - 1}, x \in S}

\* the ModelTurns a session can return
Turns == [text : TextLens, functionCalls : SeqsUpTo(ToolNames, MaxCallsPerTurn)]
NoTurn == [text |-> 0, functionCalls |-> <<>>]
NoResponse == [status |-> 0, notices |-> <<>>, len |-> 0, source |-> "none", error |-> ""]

RECURSIVE SumSeq(_)
SumSeq(q) == IF q = <<>> THEN 0 ELSE Head(q) + SumSeq(Tail(q))

\* args.command of the execute_command calls of the loop (the loop does not read it)
LoopCommands == {"npm test"}
\* the path arguments a model passes in a tool call of the loop
ToolPaths == {Undefined, <<>>, <<".">>, <<" ">>, <<"a">>, <<"l">>, <<"l", "/", "a">>,
              <<".", ".", "/", "a">>, <<"/", "a">>}

\* every result handleToolCall can produce for a call of a tool
ToolResults ==
    [name \in ToolNames |->
        {handleToolCall(fs, name, pathArg, fileChars) :
            fs \in FileSystems, pathArg \in ToolPaths, fileChars \in FileChars}]

\* what the loop reads of the result of a call: the modelResponse is a result, a
\* pending approval or {error}, and read_file reports `truncated`
ToolOutcomeSets ==
    [name \in ToolNames |->
        {[kind |-> t.kind, truncated |-> t.truncated] : t \in ToolResults[name]}]
ToolOutcomes(name) == ToolOutcomeSets[name]

\* the `switch (toolCall.name)` that sets fallbackText
NextFallbackText(name, current) ==
    CASE name = "list_workspace_files" -> "Here's the project structure:"
      [] name = "read_file" -> "Here's the file:"
      [] name = "execute_command" -> "This command requires your approval:"
      [] OTHER -> IF current = "" THEN "Here's what I found:" ELSE current

\* `if (toolCall.name === "execute_command")` that never sets the flag
NextSawExecuteCommandNever(name, current) == current

\* `if (toolCall.name === "execute_command") sawExecuteCommand = true`
NextSawExecuteCommand(name, current) == current \/ name = "execute_command"

\* length of a notice that is prepended to the text parts
NoticeLen(notice) ==
    CASE notice = "char_limit" -> 49
      [] notice = "step_limit" -> 92
      [] notice = "file_truncation" -> 69

\* length of `fallbackText || "I'm ready to help you explore your codebase!"`
FallbackLen(text) ==
    CASE text = "Here's the project structure:" -> 29
      [] text = "Here's the file:" -> 16
      [] text = "This command requires your approval:" -> 36
      [] text = "Here's what I found:" -> 20
      [] OTHER -> 44

\* length of `parts.join(MODEL_TEXT_SEPARATOR)`: the separator has two characters
join(lens) == IF lens = <<>> THEN 0 ELSE SumSeq(lens) + 2 * (Len(lens) - 1)

\* the code after the loop: limit notes, join, slice, and the JSON response.
\* Model texts are taken to have no leading or trailing white space (trim keeps them).
FinalResponse(parts, st, reason, noted, fallback) ==
    LET reason2 == IF st >= MAX_TOOL_STEPS /\ reason = "null" THEN "step_limit" ELSE reason
        limitNote == IF reason2 = "null" THEN <<>> ELSE <<reason2>>
        notices == (IF noted THEN <<"file_truncation">> ELSE <<>>) \o limitNote
        lens == [i \in 1..Len(notices) |-> NoticeLen(notices[i])] \o parts
        joined == join(lens)
        textContent == slice(joined, MAX_RESPONSE_CHARS)
    IN [status |-> 200,
        notices |-> notices,
        len |-> IF textContent > 0 THEN textContent ELSE FallbackLen(fallback),
        source |-> IF textContent > 0 THEN "text"
                   ELSE IF fallback # "" THEN "fallback" ELSE "default",
        error |-> ""]

\* `if (currentTurn.text) { textParts.push(...); textChars += ... }`
CollectedParts(turn) == IF turn.text > 0 THEN Append(textParts, turn.text) ELSE textParts
CollectedChars(turn) == textChars + turn.text

\* `functionResults.unshift({ name, result })`
unshift(results, result) == <<result>> \o results

\* `functionResults.push({ name: toolCall.name, result: modelResponse })`
push(results, result) == Append(results, result)

\* `if (textChars > MAX_RESPONSE_CHARS)`
CharLimitExceeded(chars) == chars > MAX_RESPONSE_CHARS

\* the stop test `if (textChars >= MAX_RESPONSE_CHARS)`
CharLimitReached(chars) == chars >= MAX_RESPONSE_CHARS

\* `while (step <= MAX_TOOL_STEPS)`
LoopContinuesOneMore(st) == st <= MAX_TOOL_STEPS

\* the loop test `while (step < MAX_TOOL_STEPS)`
LoopContinues(st) == st < MAX_TOOL_STEPS

\* ------------------------------------------------------------------------
\* ai-providers: getAvailableProviders and createChatWithFallback
\* ------------------------------------------------------------------------
\* The credential variables read by getAvailableProviders, in the order it reads them.
\* ANTHROPIC_API_KEY is read like OPENAI_API_KEY, and the other OpenAI-compatible
\* vendors like GROK_API_KEY: they are left unset.
EnvKeys == <<"OPENAI_API_KEY", "GEMINI_API_KEY", "GOOGLE_API_KEY", "GROK_API_KEY">>
\* the value of a credential variable ("": unset)
KeyValues == {"", "key1", "key2"}
Envs == [{EnvKeys[i] : i \in 1..Len(EnvKeys)} -> KeyValues]
EnvUnset == [k \in {EnvKeys[i] : i \in 1..Len(EnvKeys)} |-> ""]
EnvOpenAI == [EnvUnset EXCEPT !["OPENAI_API_KEY"] = "key1"]
\* the environments of the requests whose tool-calling loop is followed
LoopEnvs == {EnvUnset, EnvOpenAI}

ErrNoProviders == "No AI providers configured. Set at least one API key in .env.local."
ErrAllProvidersFailed == "All AI providers failed."
ErrProvider == "sendToolResults failed"

ProviderConfigs(envKey, provider, models, apiKey) ==
    [i \in 1..Len(models) |->
        [provider |-> provider, model |-> models[i], apiKey |-> apiKey, envKey |-> envKey]]

\* getAvailableProviders that does not look at the credentials
getAvailableProvidersAll(e) ==
    ProviderConfigs("OPENAI_API_KEY", "openai", <<"gpt-4o", "gpt-4o-mini">>,
                    e["OPENAI_API_KEY"])
    \o ProviderConfigs("GEMINI_API_KEY", "gemini", <<"gemini-2.0-flash", "gemini-1.5-flash">>,
                       e["GEMINI_API_KEY"])
    \o ProviderConfigs("GOOGLE_API_KEY", "gemini", <<"gemini-2.0-flash", "gemini-1.5-flash">>,
                       e["GOOGLE_API_KEY"])
    \o ProviderConfigs("GROK_API_KEY", "grok", <<"grok-3-mini-fast", "grok-3-mini">>,
                       e["GROK_API_KEY"])

\* getAvailableProviders on the environment e
getAvailableProviders(e) ==
    (IF e["OPENAI_API_KEY"] # ""
     THEN ProviderConfigs("OPENAI_API_KEY", "openai", <<"gpt-4o", "gpt-4o-mini">>,
                          e["OPENAI_API_KEY"])
     ELSE <<>>)
    \o (IF e["GEMINI_API_KEY"] # ""
        THEN ProviderConfigs("GEMINI_API_KEY", "gemini",
                             <<"gemini-2.0-flash", "gemini-1.5-flash">>, e["GEMINI_API_KEY"])
        ELSE <<>>)
    \o (IF e["GOOGLE_API_KEY"] # "" /\ e["GOOGLE_API_KEY"] # e["GEMINI_API_KEY"]
        THEN ProviderConfigs("GOOGLE_API_KEY", "gemini",
                             <<"gemini-2.0-flash", "gemini-1.5-flash">>, e["GOOGLE_API_KEY"])
        ELSE <<>>)
    \o (IF e["GROK_API_KEY"] # ""
        THEN ProviderConfigs("GROK_API_KEY", "grok", <<"grok-3-mini-fast", "grok-3-mini">>,
                             e["GROK_API_KEY"])
        ELSE <<>>)

\* `if (providers.length === 0)` that is never true
NoProvidersNever(provs) == FALSE

\* `if (providers.length === 0)` of createChatWithFallback
NoProviders(provs) == Len(provs) = 0

\* a `catch` of the for loop that gives up instead of `continue`
NextAfterFailureGiveUp(i, n) == n + 1

\* `catch (err) { ...; continue }`: the for loop goes on with the next config
NextAfterFailure(i, n) == i + 1

\* tool results sent to a session of the first config
ToolResultsSessionFirst(chat) == 1

\* `chatSession.sendToolResults(functionResults)`: the session that is sent the results
ToolResultsSession(chat) == chat

\* POST /api/agent up to the first provider attempt: the request is read, the loop
\* locals are initialised and createChatWithFallback reads the configured providers;
\* with none it throws and the handler answers 503
AgentStart ==
    /\ pc = "idle"
    /\ providers' = getAvailableProviders(env)
    /\ IF NoProviders(providers')
       THEN /\ pc' = "done"
            /\ response' = [NoResponse EXCEPT !.status = 503, !.error = ErrNoProviders]
       ELSE /\ pc' = "fallback"
            /\ response' = response
    /\ fbIdx' = 1
    /\ step' = 0
    /\ textParts' = <<>>
    /\ textChars' = 0
    /\ fallbackText' = ""
    /\ sawExecuteCommand' = FALSE
    /\ notedModelTruncation' = FALSE
    /\ stopReason' = "null"
    /\ UNCHANGED <<currentTurn, functionResults, callIdx, sendCount, dispatchSteps>>
    /\ UNCHANGED <<env, attempts, chatSession, toolResultsTo>>
    /\ UNCHANGED <<regVars, sandboxVars>>

\* one pass of `for (const config of providers)`: createChat and sendMessage of the
\* user's message, which returns a ModelTurn or throws; after the last config the
\* function throws and the handler answers 503
TryProvider ==
    /\ pc = "fallback"
    /\ IF fbIdx > Len(providers)
       THEN /\ pc' = "done"
            /\ response' = [NoResponse EXCEPT !.status = 503,
                                              !.error = ErrAllProvidersFailed]
            /\ UNCHANGED <<fbIdx, attempts, chatSession, currentTurn>>
       ELSE /\ attempts' = Append(attempts, fbIdx)
            /\ \/ \E turn \in Turns :
                     /\ currentTurn' = turn
                     /\ chatSession' = fbIdx
                     /\ pc' = "head"
                     /\ UNCHANGED fbIdx
               \/ /\ fbIdx' = NextAfterFailure(fbIdx, Len(providers))
                  /\ UNCHANGED <<pc, chatSession, currentTurn>>
            /\ response' = response
    /\ UNCHANGED <<step, textParts, textChars, fallbackText, sawExecuteCommand,
                   notedModelTruncation, stopReason, functionResults, callIdx, sendCount,
                   dispatchSteps>>
    /\ UNCHANGED <<env, providers, toolResultsTo>>
    /\ UNCHANGED <<regVars, sandboxVars>>

\* the loop test and the part of an iteration before the first tool call
LoopHead ==
    /\ pc = "head"
    /\ IF ~LoopContinues(step)
       THEN /\ pc' = "done"
            /\ response' = FinalResponse(textParts, step, stopReason,
                                         notedModelTruncation, fallbackText)
            /\ UNCHANGED <<textParts, textChars, stopReason, functionResults, callIdx,
                           dispatchSteps>>
       ELSE /\ textParts' = CollectedParts(currentTurn)
            /\ textChars' = CollectedChars(currentTurn)
            /\ IF currentTurn.functionCalls = <<>>
               THEN /\ pc' = "done"
                    /\ response' = FinalResponse(textParts', step, stopReason,
                                                 notedModelTruncation, fallbackText)
                    /\ UNCHANGED <<stopReason, functionResults, callIdx, dispatchSteps>>
               ELSE IF CharLimitReached(textChars')
               THEN /\ stopReason' = "char_limit"
                    /\ pc' = "done"
                    /\ response' = FinalResponse(textParts', step, stopReason',
                                                 notedModelTruncation, fallbackText)
                    /\ UNCHANGED <<functionResults, callIdx, dispatchSteps>>
               ELSE /\ functionResults' = <<>>
                    /\ callIdx' = 1
                    /\ dispatchSteps' = dispatchSteps + 1
                    /\ pc' = "dispatch"
                    /\ UNCHANGED <<stopReason, response>>
    /\ UNCHANGED <<currentTurn, step, fallbackText, sawExecuteCommand,
                   notedModelTruncation, sendCount>>
    /\ UNCHANGED <<regVars, fallbackVars, sandboxVars>>

\* one pass of `for (const call of currentTurn.functionCalls)`: await handleToolCall;
\* an exception leaving handleToolCall would reach the outer catch (status 500)
DispatchCall ==
    /\ pc = "dispatch"
    /\ callIdx <= Len(currentTurn.functionCalls)
    /\ LET name == currentTurn.functionCalls[callIdx] IN
       /\ fallbackText' = NextFallbackText(name, fallbackText)
       /\ \E out \in ToolOutcomes(name) :
             IF out.kind = "throw"
             THEN /\ pc' = "done"
                  /\ response' = [NoResponse EXCEPT !.status = 500]
                  /\ UNCHANGED <<functionResults, notedModelTruncation,
                                 sawExecuteCommand, callIdx>>
                  /\ UNCHANGED regVars
             ELSE /\ functionResults' = push(functionResults,
                                             [name |-> name, kind |-> out.kind])
                  /\ notedModelTruncation' =
                        (notedModelTruncation \/ (name = "read_file" /\ out.truncated))
                  /\ sawExecuteCommand' = NextSawExecuteCommand(name, sawExecuteCommand)
                  /\ IF name = "execute_command"
                     THEN \E reason \in Reasons, command \in LoopCommands :
                             handleExecuteCommand(reason, command)
                     ELSE UNCHANGED regVars
                  /\ callIdx' = callIdx + 1
                  /\ UNCHANGED <<pc, response>>
    /\ UNCHANGED <<currentTurn, step, textParts, textChars, stopReason, sendCount,
                   dispatchSteps>>
    /\ UNCHANGED <<fallbackVars, sandboxVars>>

\* `currentTurn = await chatSession.sendToolResults(functionResults)` and the rest of
\* the iteration; a throw of sendToolResults ends the request with status 500
SendToolResults ==
    /\ pc = "dispatch"
    /\ callIdx > Len(currentTurn.functionCalls)
    /\ sendCount' = sendCount + 1
    /\ toolResultsTo' = toolResultsTo \cup {ToolResultsSession(chatSession)}
    /\ \/ /\ pc' = "done"
          /\ response' = [NoResponse EXCEPT !.status = 500, !.error = ErrProvider]
          /\ UNCHANGED <<currentTurn, step, textParts, textChars>>
       \/ \E turn \in Turns :
             /\ currentTurn' = turn
             /\ IF sawExecuteCommand
                THEN /\ textParts' = CollectedParts(turn)
                     /\ textChars' = CollectedChars(turn)
                     /\ pc' = "done"
                     /\ response' = FinalResponse(textParts', step, stopReason,
                                                  notedModelTruncation, fallbackText)
                     /\ step' = step
                ELSE /\ step' = step + 1
                     /\ pc' = "head"
                     /\ UNCHANGED <<textParts, textChars, response>>
    \* functionResults is a local of the iteration
    /\ functionResults' = <<>>
    /\ callIdx' = 1
    /\ UNCHANGED <<fallbackText, sawExecuteCommand, notedModelTruncation, stopReason,
                   dispatchSteps>>
    /\ UNCHANGED <<env, providers, fbIdx, attempts, chatSession>>
    /\ UNCHANGED <<regVars, sandboxVars>>

\* a call resolveWorkspacePath(maybePath, {allowDefaultRoot}) on some filesystem
\* (each behaviour follows one call)
CallResolve ==
    /\ resolveCall = NoResolveCall
    /\ toolCall = NoToolCall
    /\ \E fs \in FileSystems, maybePath \in PathInputs, allowDefaultRoot \in BOOLEAN :
          resolveCall' = [fs |-> fs, maybePath |-> maybePath,
                          allowDefaultRoot |-> allowDefaultRoot, called |-> TRUE,
                          result |-> resolveWorkspacePath(fs, maybePath, allowDefaultRoot)]
    /\ UNCHANGED <<toolCall, listCall, adapterVars, regVars, loopVars, fallbackVars>>

\* a call handleToolCall({name, args}) of a tool that takes a path, or of an unknown tool
CallTool ==
    /\ resolveCall = NoResolveCall
    /\ toolCall = NoToolCall
    /\ \E fs \in FileSystems, name \in PathTools \cup {"unknown_tool"},
          pathArg \in ToolPaths, fileChars \in FileChars :
          toolCall' = [fs |-> fs, name |-> name, pathArg |-> pathArg,
                       fileChars |-> fileChars,
                       result |-> handleToolCall(fs, name, pathArg, fileChars)]
    /\ UNCHANGED <<resolveCall, listCall, adapterVars, regVars, loopVars, fallbackVars>>

\* a call workspaceList(path, depth) on some directory (each behaviour follows one call)
CallWorkspaceList ==
    /\ ~listCall.called
    /\ \E dir \in Workspaces(MaxNodes), depth \in DepthArgs :
          listCall' = [called |-> TRUE, dir |-> dir, depth |-> depth,
                       tree |-> workspaceList(dir, depth)]
    /\ UNCHANGED <<resolveCall, toolCall, adapterVars, regVars, loopVars, fallbackVars>>

\* ------------------------------------------------------------------------
\* The chat adapters of ai-providers: OpenAI-compatible and Anthropic sessions
\* ------------------------------------------------------------------------
\* the provider families of the configs that `for (const config of providers)` meets
ConfigSeqs == UNION {[1..n -> {"openai", "anthropic"}] : n \in 1..MaxConfigs}
\* the `history` arrays a caller passes
Histories ==
    {<<>>,
     <<[role |-> "user", content |-> "hi"]>>,
     <<[role |-> "user", content |-> "hi"], [role |-> "model", content |-> "hello"]>>}

\* a message of a transcript: `blocks` holds tool_calls (OpenAI) or the content blocks
\* (Anthropic), `tool_call_id` is 0 where the message has none
Msg(role, content, blocks, tool_call_id) ==
    [role |-> role, content |-> content, blocks |-> blocks, tool_call_id |-> tool_call_id]
\* a tool call (type "function"), or a content block: "text", "tool_use", "tool_result"
Block(type, id, name, content) ==
    [type |-> type, id |-> id, name |-> name, content |-> content]

\* `history.map((m) => ({ role: m.role === "user" ? "user" : "assistant",
\* content: m.content }))`: a new array
mapHistory(h) ==
    [i \in 1..Len(h) |->
        Msg(IF h[i].role = "user" THEN "user" ELSE "assistant", h[i].content, <<>>, 0)]

\* sessions that go on with the `messages` array of the session created before
initialMessagesShared(kind, h) ==
    IF messages # <<>> THEN messages
    ELSE IF kind = "openai"
         THEN <<Msg("system", "You are the workspace agent", <<>>, 0)>> \o mapHistory(h)
         ELSE mapHistory(h)

\* `const messages = [...]` of createOpenAICompatibleChat (the system prompt first) and
\* of createAnthropicChat
initialMessages(kind, h) ==
    IF kind = "openai"
    THEN <<Msg("system", "You are the workspace agent", <<>>, 0)>> \o mapHistory(h)
    ELSE mapHistory(h)

\* what a vendor's answer holds, in emission order: "text" or the name of a called tool
Shapes ==
    {shape \in UNION {[1..n -> {"text", "read_file", "get_git_status"}] :
                         n \in 0..(MaxCallsPerTurn + 1)} :
        /\ Cardinality({p \in 1..Len(shape) : shape[p] = "text"}) <= 1
        /\ Cardinality({p \in 1..Len(shape) : shape[p] # "text"}) <= MaxCallsPerTurn}
CallsOf(shape) == SelectSeq(shape, LAMBDA x : x # "text")
\* the identifiers the vendor gives the tool calls of an answer, in emission order
EmittedIds(shape, id) == [k \in 1..Len(CallsOf(shape)) |-> id + k - 1]

\* the answer of a vendor: `resp.choices[0].message` {content, tool_calls} of a chat
\* completion, or `resp.content` (text and tool_use blocks) of an Anthropic message
VendorAnswer(kind, shape, id) ==
    IF kind = "openai"
    THEN [content |-> IF \E p \in 1..Len(shape) : shape[p] = "text" THEN "ok" ELSE "",
          blocks |-> [k \in 1..Len(CallsOf(shape)) |->
                         Block("function", id + k - 1, CallsOf(shape)[k], "")]]
    ELSE [content |-> "",
          blocks |-> [p \in 1..Len(shape) |->
                         IF shape[p] = "text"
                         THEN Block("text", 0, "", "ok")
                         ELSE Block("tool_use",
                                    id + Cardinality({q \in 1..(p - 1) : shape[q] # "text"}),
                                    shape[p], "")]]

\* parseResponse of the two adapters
parseResponse(kind, raw) ==
    IF kind = "openai"
    THEN [text |-> raw.content,
          functionCalls |-> [k \in 1..Len(raw.blocks) |-> [name |-> raw.blocks[k].name]]]
    ELSE LET uses == SelectSeq(raw.blocks, LAMBDA b : b.type = "tool_use")
             texts == SelectSeq(raw.blocks, LAMBDA b : b.type = "text")
         IN [text |-> IF texts = <<>> THEN "" ELSE texts[1].content,
             functionCalls |-> [k \in 1..Len(uses) |-> [name |-> uses[k].name]]]

\* `messages.push(resp.choices[0].message)`, and
\* `messages.push({ role: "assistant", content: resp.content })`
assistantMessage(kind, raw) ==
    IF kind = "openai"
    THEN Msg("assistant", raw.content, raw.blocks, 0)
    ELSE Msg("assistant", "", raw.blocks, 0)

\* `[...messages].reverse().find(...)`: the tool_calls of the last assistant message
\* that has tool calls (OpenAI), the tool_use blocks of the last assistant message
\* (Anthropic); none when there is no such message
lastToolCalls(kind, msgs) ==
    LET I == {i \in 1..Len(msgs) :
                 /\ msgs[i].role = "assistant"
                 /\ kind = "openai" => Len(msgs[i].blocks) > 0}
        blocks == IF I = {} THEN <<>> ELSE msgs[CHOOSE i \in I : \A j \in I : j <= i].blocks
    IN IF kind = "openai" THEN blocks
       ELSE SelectSeq(blocks, LAMBDA b : b.type = "tool_use")

\* the identifier of the last tool call for every result
idOrLast(toolCalls, i, synthesized) ==
    IF toolCalls # <<>> THEN toolCalls[Len(toolCalls)].id ELSE synthesized

\* `toolCalls[i]?.id || synthesized`
idOr(toolCalls, i, synthesized) ==
    IF i <= Len(toolCalls) /\ toolCalls[i].id # 0 THEN toolCalls[i].id ELSE synthesized

\* JSON.stringify of the result of a tool call
JSONstringify(result) == IF result = "content" THEN "\"content\"" ELSE "\"clean\""

\* the messages that sendToolResults pushes before it asks for a completion; the
\* made-up identifiers call_${i} and toolu_${i}, which no vendor emitted, are 0 - i
toolResultMessages(kind, msgs, results) ==
    LET toolCalls == lastToolCalls(kind, msgs)
    IN IF kind = "openai"
       THEN [i \in 1..Len(results) |->
                Msg("tool", JSONstringify(results[i].result), <<>>,
                    idOr(toolCalls, i, 0 - i))]
       ELSE <<Msg("user", "",
                  [i \in 1..Len(results) |->
                      Block("tool_result", idOr(toolCalls, i, 0 - i), "",
                            JSONstringify(results[i].result))],
                  0)>>

\* createChatWithFallback(systemPrompt, tools, history, userMessage) with at least one
\* provider configured, up to the for loop
CallCreateChatWithFallback ==
    /\ chatPc = "idle"
    /\ \E h \in Histories, configs \in ConfigSeqs :
          /\ history' = h
          /\ chatConfigs' = configs
    /\ chatIdx' = 1
    /\ chatPc' = "fallback"
    /\ UNCHANGED <<messages, modelTurn, nextCallId, vendorLog>>
    /\ UNCHANGED <<resolveCall, toolCall, listCall, regVars, loopVars, fallbackVars>>

\* one pass of `for (const config of providers)`: createChat builds the session's
\* messages, sendMessage pushes the user's message and asks the vendor, which answers
\* or fails; a failure goes on with the next config, or throws after the last one
TryChat ==
    /\ chatPc = "fallback"
    /\ LET kind == chatConfigs[chatIdx]
           sent == Append(initialMessages(kind, history),
                          Msg("user", "run the tests", <<>>, 0))
       IN \/ \E shape \in Shapes :
                LET raw == VendorAnswer(kind, shape, nextCallId)
                IN /\ messages' = Append(sent, assistantMessage(kind, raw))
                   /\ modelTurn' = parseResponse(kind, raw)
                   /\ nextCallId' = nextCallId + Len(CallsOf(shape))
                   /\ vendorLog' = Append(vendorLog,
                         [kind |-> kind, via |-> "sendMessage", request |-> sent,
                          results |-> <<>>, ok |-> TRUE,
                          ids |-> EmittedIds(shape, nextCallId)])
                   /\ chatPc' = "chat"
                   /\ UNCHANGED chatIdx
          \/ /\ messages' = sent
             /\ vendorLog' = Append(vendorLog,
                   [kind |-> kind, via |-> "sendMessage", request |-> sent,
                    results |-> <<>>, ok |-> FALSE, ids |-> <<>>])
             /\ chatIdx' = chatIdx + 1
             /\ chatPc' = IF chatIdx + 1 > Len(chatConfigs) THEN "failed" ELSE "fallback"
             /\ UNCHANGED <<modelTurn, nextCallId>>
    /\ UNCHANGED <<history, chatConfigs>>
    /\ UNCHANGED <<resolveCall, toolCall, listCall, regVars, loopVars, fallbackVars>>

\* chat.sendToolResults(functionResults) of the agent loop: one result for each call of
\* the turn returned last, in the order of the calls
ChatSendToolResults ==
    /\ chatPc = "chat"
    /\ modelTurn.functionCalls # <<>>
    /\ Cardinality({n \in 1..Len(vendorLog) : vendorLog[n].via = "sendToolResults"})
           < MaxRounds
    /\ LET kind == chatConfigs[chatIdx]
           results == [i \in 1..Len(modelTurn.functionCalls) |->
                          [name |-> modelTurn.functionCalls[i].name,
                           result |-> IF modelTurn.functionCalls[i].name = "read_file"
                                      THEN "content" ELSE "clean"]]
           sent == messages \o toolResultMessages(kind, messages, results)
       IN \/ \E shape \in Shapes :
                LET raw == VendorAnswer(kind, shape, nextCallId)
                IN /\ messages' = Append(sent, assistantMessage(kind, raw))
                   /\ modelTurn' = parseResponse(kind, raw)
                   /\ nextCallId' = nextCallId + Len(CallsOf(shape))
                   /\ vendorLog' = Append(vendorLog,
                         [kind |-> kind, via |-> "sendToolResults", request |-> sent,
                          results |-> results, ok |-> TRUE,
                          ids |-> EmittedIds(shape, nextCallId)])
                   /\ UNCHANGED chatPc
          \/ /\ messages' = sent
             /\ vendorLog' = Append(vendorLog,
                   [kind |-> kind, via |-> "sendToolResults", request |-> sent,
                    results |-> results, ok |-> FALSE, ids |-> <<>>])
             /\ chatPc' = "failed"
             /\ UNCHANGED <<modelTurn, nextCallId>>
    /\ UNCHANGED <<history, chatConfigs, chatIdx>>
    /\ UNCHANGED <<resolveCall, toolCall, listCall, regVars, loopVars, fallbackVars>>

vars == <<regVars, loopVars, fallbackVars, sandboxVars>>

\* the state after the modules are loaded, in the environment e
InitIn(e) ==
    /\ pendingApprovals = EmptyMap
    /\ activeTokens = EmptyMap
    /\ timers = {}
    /\ now = 0
    /\ requests = <<>>
    /\ issued = <<>>
    /\ slots = [s \in 1..NumSlots |-> IdleSlot]
    /\ execLog = <<>>
    /\ presented = {}
    /\ last = NoLast
    /\ pc = "idle"
    /\ currentTurn = NoTurn
    /\ step = 0
    /\ textParts = <<>>
    /\ textChars = 0
    /\ fallbackText = ""
    /\ sawExecuteCommand = FALSE
    /\ notedModelTruncation = FALSE
    /\ stopReason = "null"
    /\ functionResults = <<>>
    /\ callIdx = 1
    /\ sendCount = 0
    /\ dispatchSteps = 0
    /\ response = NoResponse
    /\ env = e
    /\ providers = <<>>
    /\ fbIdx = 1
    /\ attempts = <<>>
    /\ chatSession = 0
    /\ toolResultsTo = {}
    /\ resolveCall = NoResolveCall
    /\ toolCall = NoToolCall
    /\ listCall = NoListCall
    /\ history = <<>>
    /\ chatConfigs = <<>>
    /\ chatIdx = 1
    /\ chatPc = "idle"
    /\ messages = <<>>
    /\ modelTurn = [text |-> "", functionCalls |-> <<>>]
    /\ nextCallId = 1
    /\ vendorLog = <<>>

Init == InitIn(EnvOpenAI)
LoopInit == \E e \in LoopEnvs : InitIn(e)
FallbackInit == \E e \in Envs : InitIn(e)

Next ==
    \/ ToolExecuteCommand
    \/ TimerFire
    \/ Tick
    \/ Approve
    \/ Execute

Spec == Init /\ [][Next]_vars

\* the registry with the approval requests of two agent requests
PairNext ==
    \/ ToolExecuteCommandNext
    \/ TimerFire
    \/ Tick
    \/ Approve
    \/ Execute

PairSpec == Init /\ [][PairNext]_vars

\* the registry with execute requests that name a working directory
WorkDirNext ==
    \/ ToolExecuteCommand
    \/ TimerFire
    \/ Tick
    \/ Approve
    \/ ExecuteIn

WorkDirSpec == Init /\ [][WorkDirNext]_vars

\* concurrently running route handlers
RaceNext ==
    \/ ToolExecuteCommand
    \/ TimerFire
    \/ Tick
    \/ ApproveReceive
    \/ ApproveResume
    \/ ExecuteReceive
    \/ ExecuteResume

RaceSpec == Init /\ [][RaceNext]_vars

\* one agent request from its arrival to its response
LoopNext ==
    \/ AgentStart
    \/ TryProvider
    \/ LoopHead
    \/ DispatchCall
    \/ SendToolResults

LoopSpec == LoopInit /\ [][LoopNext]_vars

\* the path sandbox: one call of the resolver or of handleToolCall
SandboxNext ==
    \/ CallResolve
    \/ CallTool

SandboxSpec == Init /\ [][SandboxNext]_vars

\* the workspace inspector: one call of workspaceList
InspectorNext == CallWorkspaceList

InspectorSpec == Init /\ [][InspectorNext]_vars

\* the provider fallback of one agent request, in every environment
FallbackNext ==
    \/ AgentStart
    \/ TryProvider

FallbackSpec == FallbackInit /\ [][FallbackNext]_vars

\* one createChatWithFallback call and the tool rounds of the session it returns
AdapterNext ==
    \/ CallCreateChatWithFallback
    \/ TryChat
    \/ ChatSendToolResults

AdapterSpec == Init /\ [][AdapterNext]_vars

\* ========================================================================
\* Properties of the approval registry
\* ========================================================================
MintedTokens == 1..Len(issued)
ExecCount(token) == Cardinality({i \in 1..Len(execLog) : execLog[i].token = token})
TokensOf(requestId) == {t \in MintedTokens : issued[t].requestId = requestId}
\* the latest step was a runTerminal call / a grantApproval call
RunCalled == last.route = "execute" /\ last.status # 400
GrantCalled == last.route = "approve" /\ last.status # 400
\* the executions under the presented token that precede the latest runTerminal call
ExecsBeforeLast ==
    ExecCount(last.approval_token) - (IF last.ran = "" THEN 0 ELSE 1)
Denied ==
    /\ last.status = 403
    /\ IncludesPermissionDenied(last.error)
    /\ last.ran = ""

\* C1: for every token at most one runTerminal call presenting it passes validation
\* and runs a command; every later call presenting the same token fails with a
\* PERMISSION DENIED error and runs nothing.
C1_TokenSingleUse ==
    /\ \A t \in MintedTokens \cup {UnknownId} : ExecCount(t) <= 1
    /\ (RunCalled /\ ExecsBeforeLast >= 1) => Denied

\* a token that already ran a command has been presented again and was denied
C1_Witness ==
    /\ RunCalled
    /\ ExecsBeforeLast = 1
    /\ last.status = 403

\* C2: whenever runTerminal executes a command under a token, the executed command
\* string is the command string of the PendingApproval whose grant minted the token.
C2_ExecutedCommandIsApproved ==
    \A i \in 1..Len(execLog) :
        /\ execLog[i].token \in MintedTokens
        /\ execLog[i].command = issued[execLog[i].token].command
        /\ execLog[i].command = requests[issued[execLog[i].token].requestId].command

\* C3: runTerminal invokes the process execution only when the presented token is in
\* activeTokens and not past its expiry at the time of the call; with an unknown,
\* already-used or expired token it fails with PERMISSION DENIED and executes nothing.
C3_ExecOnlyWithLiveToken ==
    RunCalled =>
        /\ last.ran # "" => last.tokenWas = "live"
        /\ last.tokenWas \in {"unknown", "gone", "expired"} => Denied
        /\ last.tokenWas = "live" => last.ran = last.command

\* a call with a token that was never minted has been denied
C3_Witness ==
    /\ RunCalled
    /\ last.tokenWas = "unknown"
    /\ last.status = 403
    /\ Len(issued) > 0

\* C4: for every request id at most one grantApproval call succeeds and mints a
\* token; every later grantApproval on the same id fails with the 'Invalid or
\* expired approval request' error and mints nothing.
C4_GrantAtMostOnce ==
    /\ \A id \in 1..Len(requests) : Cardinality(TokensOf(id)) <= 1
    /\ (GrantCalled /\ last.seenBefore) =>
          /\ last.status = 500
          /\ last.error = ErrInvalidRequest
          /\ last.minted = Missing

\* a second grantApproval on a granted id has failed
C4_Witness ==
    /\ GrantCalled
    /\ last.seenBefore
    /\ last.status = 500
    /\ Cardinality(TokensOf(last.request_id)) = 1

\* the request id of the latest grantApproval call was created at least 5 minutes ago
TimeoutElapsed ==
    /\ last.request_id \in 1..Len(requests)
    /\ now >= requests[last.request_id].timestamp + PendingTimeoutMs

\* C5: once a request id has been granted, or once 5 minutes have elapsed since
\* requestApproval created it, no grantApproval call on that id returns a token.
C5_NoGrantAfterGrantOrTimeout ==
    (GrantCalled /\ (last.seenBefore \/ TimeoutElapsed)) => last.minted = Missing

\* C6: a runTerminal call presenting a token after its expiry time fails with the
\* 'expired' PERMISSION DENIED error even if the token was never used, executes
\* nothing and removes the token, so a later presentation fails as an unknown token.
C6_ExpiredTokenRemoved ==
    /\ (RunCalled /\ last.tokenWas = "expired") =>
          /\ last.error = ErrExpiredToken
          /\ Denied
          /\ last.approval_token \notin DOMAIN activeTokens
    /\ (RunCalled /\ last.seenBefore) =>
          /\ last.error = ErrInvalidToken
          /\ Denied

\* a token removed by an expired presentation (it never ran a command) is presented
\* again and fails as an unknown token
C6_Witness ==
    /\ RunCalled
    /\ last.seenBefore
    /\ last.approval_token \in MintedTokens
    /\ ExecCount(last.approval_token) = 0
    /\ last.error = ErrInvalidToken

\* C8: happy path: a grantApproval(R) called before R's 5-minute timeout returns
\* status 'granted' with a token T; a runTerminal(cmd, T) with the approved cmd, called
\* no later than 60 seconds after the grant with T not presented before, passes
\* validation and executes cmd; a second run with T fails.
C8_HappyPath ==
    /\ (/\ GrantCalled
        /\ last.request_id \in 1..Len(requests)
        /\ ~last.seenBefore
        /\ ~TimeoutElapsed)
       => /\ last.status = 200
          /\ last.minted \in DOMAIN activeTokens
          /\ activeTokens[last.minted] =
                [requestId |-> last.request_id,
                 command |-> requests[last.request_id].command,
                 expires |-> now + TokenTtlMs]
    /\ (/\ RunCalled
        /\ last.approval_token \in MintedTokens
        /\ ~last.seenBefore)
       => LET data == issued[last.approval_token] IN
          (now <= data.expires /\ last.command = data.command)
             => /\ last.ran = data.command
                /\ last.tokenWas = "live"
                /\ ExecCount(last.approval_token) = 1
    /\ (RunCalled /\ last.seenBefore) => Denied

\* the approved command has run under its token at the last instant of its validity
C8_Witness ==
    /\ RunCalled
    /\ last.approval_token \in MintedTokens
    /\ last.status = 200
    /\ last.ran = requests[issued[last.approval_token].requestId].command
    /\ now = issued[last.approval_token].expires

\* the state of the approval with a request id, read from the registries and the clock
ApprovalState(id) ==
    IF id \notin 1..Len(requests) THEN "None"
    ELSE IF id \in DOMAIN pendingApprovals THEN "Pending"
    ELSE IF TokensOf(id) = {} THEN "Expired"
    ELSE IF \E t \in TokensOf(id) : t \in DOMAIN activeTokens /\ now <= issued[t].expires
         THEN "Granted"
    ELSE IF \E t \in TokensOf(id) : ExecCount(t) > 0 THEN "Consumed"
    ELSE "Expired"

ApprovalTransitions ==
    {<<"None", "Pending">>, <<"Pending", "Granted">>, <<"Granted", "Consumed">>,
     <<"Pending", "Expired">>, <<"Granted", "Expired">>}

C12_ToolCallOnlyRequests ==
    [][/\ last'.route = "tool" =>
             /\ execLog' = execLog
             /\ issued' = issued
             /\ activeTokens' = activeTokens
             /\ last'.request_id \notin 1..Len(requests)
             /\ pendingApprovals' =
                   MapSet(pendingApprovals, last'.request_id, requests'[last'.request_id])
             /\ requests'[last'.request_id].command = last'.command
       /\ execLog' # execLog =>
             /\ Len(execLog') = Len(execLog) + 1
             /\ last'.route = "execute"
             /\ LET token == execLog'[Len(execLog')].token IN
                   /\ token \in DOMAIN activeTokens
                   /\ token \in MintedTokens
                   /\ issued[token].requestId \in 1..Len(requests)
       /\ issued' # issued =>
             /\ last'.route = "approve"
             /\ last'.status = 200
             /\ last'.request_id \in DOMAIN pendingApprovals
             /\ last'.request_id \in 1..Len(requests)
             /\ Len(issued') = Len(issued) + 1
             /\ issued'[Len(issued')].requestId = last'.request_id
       /\ DOMAIN activeTokens' \subseteq DOMAIN activeTokens \cup (MintedTokens' \ MintedTokens)
      ]_vars

\* an execute_command tool call has just returned: its request is pending, no token
\* exists for it and nothing has run
C12_Witness ==
    /\ last.route = "tool"
    /\ last.request_id \in DOMAIN pendingApprovals
    /\ TokensOf(last.request_id) = {}
    /\ execLog = <<>>

\* C7: under any interleaving of concurrently running approve and execute handlers,
\* grants racing on one request id yield exactly one token and executes racing on one
\* valid token yield exactly one command execution: the first racer to resume finds
\* the entry and removes it, every other finds it gone.
C7_RaceSafe ==
    /\ \A id \in 1..Len(requests) : Cardinality(TokensOf(id)) <= 1
    /\ \A t \in MintedTokens : ExecCount(t) <= 1
    /\ GrantCalled =>
          /\ last.idWas = "pending" =>
                last.status = 200 /\ TokensOf(last.request_id) = {last.minted}
          /\ last.idWas # "pending" => last.status = 500 /\ last.minted = Missing
    /\ RunCalled =>
          /\ last.tokenWas = "live" =>
                last.ran = last.command /\ ExecCount(last.approval_token) = 1
          /\ last.tokenWas # "live" => Denied

\* two approve handlers for one request id were suspended together; one has resumed
\* and been granted the token, the other is still suspended
C7_Witness ==
    /\ GrantCalled
    /\ last.status = 200
    /\ \E s \in 1..NumSlots :
          slots[s].route = "approve" /\ slots[s].request_id = last.request_id

\* ========================================================================
\* Properties of the path sandbox
\* ========================================================================
\* the path is the workspace root or below it
UnderRoot(path) ==
    /\ Len(path) >= Len(WORKSPACE_ROOT_REAL)
    /\ SubSeq(path, 1, Len(WORKSPACE_ROOT_REAL)) = WORKSPACE_ROOT_REAL
\* the path has no symbolic link left to resolve
Canonical(fs, path) == realpathSync(fs, path) = [code |-> "ok", path |-> path]
HasParentSegment(str) == Includes(split(str, {"/", "\\"}), DotDot)

\* C18: every path returned by resolveWorkspacePath is, after symlink resolution,
\* equal to or under the canonical workspace root; a path through a symlink inside the
\* workspace that points outside it is rejected with the path-violation error of the
\* check made after canonicalization, although the check made before it passed.
C18_ResolvedInsideRoot ==
    resolveCall.called =>
        LET r == resolveCall.result
            fs == resolveCall.fs
        IN /\ r.ok => (UnderRoot(r.path) /\ Canonical(fs, r.path))
           /\ \A i \in 1..Len(r.realpathCalls) :
                 LET real == realpathSync(fs, r.realpathCalls[i]) IN
                 /\ UnderRoot(r.realpathCalls[i])
                 /\ (real.code = "ok" /\ ~UnderRoot(real.path)) =>
                       (~r.ok /\ r.error = ErrSymlinkEscape)
           /\ r.error = ErrSymlinkEscape => r.realpathCalls # <<>>

\* the path l/a, where l is a link to a directory outside the root, is rejected after
\* realpathSync was called on it
C18_Witness ==
    /\ resolveCall.called
    /\ resolveCall.maybePath = <<"l", "/", "a">>
    /\ resolveCall.fs.l = "toOut"
    /\ resolveCall.result.error = ErrSymlinkEscape
    /\ resolveCall.result.realpathCalls = <<WORKSPACE_ROOT_REAL \o << <<"l">>, <<"a">> >> >>

\* C19: for every input path that contains a '..' segment or is absolute,
\* resolveWorkspacePath fails with a path-violation error before any filesystem call
\* (realpath) is made.
C19_RejectedBeforeFilesystem ==
    (/\ resolveCall.called
     /\ resolveCall.maybePath # Undefined
     /\ \/ HasParentSegment(resolveCall.maybePath)
        \/ HasParentSegment(trim(resolveCall.maybePath))
        \/ isAbsolute(resolveCall.maybePath)
        \/ isAbsolute(trim(resolveCall.maybePath)))
    => /\ ~resolveCall.result.ok
       /\ resolveCall.result.error \in PathViolations
       /\ resolveCall.result.realpathCalls = <<>>

\* the path a/.. of an existing directory a, which stays inside the root, is rejected
C19_Witness ==
    /\ resolveCall.called
    /\ resolveCall.maybePath = <<"a", "/", ".", ".">>
    /\ resolveCall.fs.a = "dir"
    /\ resolveCall.result.error = ErrParentRef

\* the resolver call that handleToolCall makes for the latest tool call
ToolCallResolved ==
    resolveWorkspacePath(toolCall.fs, toolCall.pathArg, toolCall.name # "read_file")

\* C20 (as claimed): for each path-accepting tool call the collaborator is invoked only
\* with a path returned by resolveWorkspacePath; when the resolver fails, no
\* filesystem or git access is made for that call and the result is an error.
C20_NoAccessAsClaimed ==
    toolCall.name \in PathTools =>
        LET r == ToolCallResolved
            t == toolCall.result
        IN /\ \A i \in 1..Len(t.collabCalls) : (r.ok /\ t.collabCalls[i].path = r.path)
           /\ ~r.ok => /\ t.collabCalls = <<>>
                       /\ t.realpathCalls = <<>>
                       /\ t.kind = "error"

\* C20 (amended): for each path-accepting tool call the collaborator is invoked only
\* with a path returned by resolveWorkspacePath; when the resolver fails, no
\* collaborator (workspaceList, workspaceRead, gitStatus, gitDiff) is invoked and the
\* result is the resolver's error; the only filesystem call made is the resolver's own
\* realpathSync of a candidate under the root.
C20_CollaboratorGetsResolvedPath ==
    toolCall.name \in PathTools =>
        LET r == ToolCallResolved
            t == toolCall.result
        IN /\ \A i \in 1..Len(t.collabCalls) : (r.ok /\ t.collabCalls[i].path = r.path)
           /\ r.ok => (Len(t.collabCalls) = 1 /\ UnderRoot(t.collabCalls[1].path))
           /\ ~r.ok => /\ t.collabCalls = <<>>
                       /\ t.kind = "error"
                       /\ t.error = r.error
           /\ t.realpathCalls = r.realpathCalls
           /\ \A i \in 1..Len(t.realpathCalls) : UnderRoot(t.realpathCalls[i])

\* get_git_diff with cwd l, a link to a directory outside the root: the resolver
\* fails after its realpathSync call and gitDiff is not invoked
C20_Witness ==
    /\ toolCall.name = "get_git_diff"
    /\ toolCall.pathArg = <<"l">>
    /\ toolCall.fs.l = "toOut"
    /\ toolCall.result.kind = "error"
    /\ toolCall.result.error = ErrSymlinkEscape
    /\ toolCall.result.collabCalls = <<>>
    /\ toolCall.result.realpathCalls # <<>>

\* ========================================================================
\* Properties of the provider fallback
\* ========================================================================
KeyIndex(envKey) == CHOOSE i \in 1..Len(EnvKeys) : EnvKeys[i] = envKey
\* the configs 1..n in order
Upto(n) == [i \in 1..n |-> i]
\* createChatWithFallback has read the configured providers
ProvidersRead == pc # "idle"

\* C14: createChatWithFallback returns the session of the first config, in the
\* priority order of getAvailableProviders (only configs whose credential is set),
\* whose sendMessage succeeds: every config before it was attempted exactly once and
\* failed, and no config after it and no unconfigured provider is ever called.
C14_FirstWorkingProvider ==
    /\ ProvidersRead =>
          /\ \A i \in 1..Len(providers) :
                 /\ providers[i].apiKey # ""
                 /\ providers[i].apiKey = env[providers[i].envKey]
          /\ \A i, j \in 1..Len(providers) :
                 i < j => KeyIndex(providers[i].envKey) <= KeyIndex(providers[j].envKey)
          /\ \A k \in DOMAIN env :
                 (env[k] # "" /\ (k = "GOOGLE_API_KEY" => env[k] # env["GEMINI_API_KEY"]))
                    => \E i \in 1..Len(providers) : providers[i].envKey = k
    /\ attempts = Upto(Len(attempts))
    /\ Len(attempts) <= Len(providers)
    /\ pc = "fallback" => (chatSession = 0 /\ Len(attempts) = fbIdx - 1)
    /\ chatSession # 0 =>
          /\ pc = "head"
          /\ chatSession \in 1..Len(providers)
          /\ attempts = Upto(chatSession)

\* three providers are configured, the first two failed and the session of the third
\* is returned; the variable of a fourth provider is not set
C14_Witness ==
    /\ pc = "head"
    /\ chatSession = 3
    /\ attempts = <<1, 2, 3>>
    /\ providers[3].envKey = "GOOGLE_API_KEY"
    /\ Len(providers) = 4
    /\ env["OPENAI_API_KEY"] = ""

\* C15: within one request each ProviderConfig is attempted at most once; if every
\* configured provider fails its first sendMessage, createChatWithFallback fails with
\* the 'all providers failed' error only after each config was attempted once, in order.
C15_EachProviderOnce ==
    /\ \A i, j \in 1..Len(attempts) : i # j => attempts[i] # attempts[j]
    /\ (pc = "done" /\ ProvidersRead /\ Len(providers) > 0) =>
          /\ response.status = 503
          /\ response.error = ErrAllProvidersFailed
          /\ chatSession = 0
          /\ attempts = Upto(Len(providers))
    /\ response.error = ErrAllProvidersFailed => (pc = "done" /\ Len(providers) > 0)

\* every one of four configs failed and the request has ended with the error
C15_Witness ==
    /\ pc = "done"
    /\ response.error = ErrAllProvidersFailed
    /\ attempts = <<1, 2, 3, 4>>
    /\ Len(providers) = 4

\* no credential variable is set
NoCredentials == \A k \in DOMAIN env : env[k] = ""

\* C16: when no provider credential is configured, createChatWithFallback fails at
\* once with a configuration error, no session is created and no vendor is called, and
\* the agent request ends with an error response without dispatching any tool call.
C16_NoProviderConfigured ==
    NoCredentials =>
        /\ pc \in {"idle", "done"}
        /\ attempts = <<>>
        /\ chatSession = 0
        /\ toolResultsTo = {}
        /\ dispatchSteps = 0
        /\ sendCount = 0
        /\ requests = <<>>
        /\ pc = "done" =>
              /\ response.status = 503
              /\ response.error = ErrNoProviders

\* a request made with no credential set has been answered
C16_Witness ==
    /\ NoCredentials
    /\ pc = "done"
    /\ response.status = 503

\* C17: after fallback has selected a session every sendToolResults call of the
\* request goes to that session; an error raised by sendToolResults is not recovered
\* by trying another provider: the request ends with an error response.
C17_StickySession ==
    /\ toolResultsTo \subseteq {chatSession}
    /\ sendCount > 0 => (chatSession # 0 /\ toolResultsTo = {chatSession})
    /\ chatSession # 0 => attempts = Upto(chatSession)
    /\ response.error = ErrProvider =>
          /\ pc = "done"
          /\ response.status = 500
          /\ sendCount > 0

\* the session of the second config was selected, was sent tool results twice and
\* failed the second time, while no other config was tried
C17_Witness ==
    /\ chatSession = 2
    /\ Len(providers) = 2
    /\ sendCount = 2
    /\ response.error = ErrProvider
    /\ attempts = <<1, 2>>

\* ========================================================================
\* Properties of the tool-calling loop
\* ========================================================================
Responded == pc = "done" /\ response.status = 200
HasNotice(n) == \E i \in 1..Len(response.notices) : response.notices[i] = n

\* C11: after a step containing an execute_command call has been dispatched and its
\* results sent back to the session, the loop dispatches no further tool call, even
\* when the returned turn requests tool calls; only that turn's text is collected.
\* (In this specification approvals are requested only by the loop's execute_command
\* calls, so Len(requests) > 0 says that such a call has been dispatched.)
C11_StopAfterExecuteCommand ==
    /\ (Len(requests) > 0 /\ sendCount = dispatchSteps) =>
          /\ pc = "done"
          /\ functionResults = <<>>
          /\ response.status \in {200, 500}
    /\ (Len(requests) > 0 /\ Responded) =>
          /\ sendCount = dispatchSteps
          /\ SumSeq(textParts) = textChars
          /\ currentTurn.text > 0 =>
                (textParts # <<>> /\ textParts[Len(textParts)] = currentTurn.text)
          /\ ~HasNotice("step_limit")

\* the turn returned after an execute_command step asked for more tool calls and
\* carried a text: the request has ended with that text collected
C11_Witness ==
    /\ Len(requests) > 0
    /\ Responded
    /\ currentTurn.functionCalls # <<>>
    /\ currentTurn.text > 0
    /\ dispatchSteps > 1

\* C13: a failure of an individual tool call (resolver rejection, missing file,
\* unknown tool name, collaborator exception) becomes an {error} result of the batch
\* fed back to the model: it never aborts the loop, the remaining calls of the turn
\* are still dispatched, and sendToolResults receives one result per requested call.
C13_ToolFailuresAreResults ==
    [][/\ (pc = "dispatch" /\ callIdx <= Len(currentTurn.functionCalls)) =>
             /\ pc' = "dispatch"
             /\ response' = response
             /\ callIdx' = callIdx + 1
             /\ \E result \in [name : {currentTurn.functionCalls[callIdx]},
                                kind : {"ok", "error", "pending"}] :
                    functionResults' = Append(functionResults, result)
       /\ sendCount' # sendCount =>
             /\ Len(functionResults) = Len(currentTurn.functionCalls)
             /\ \A i \in 1..Len(functionResults) :
                    functionResults[i].name = currentTurn.functionCalls[i]
      ]_vars

\* the first call of a turn failed and the call after it has been dispatched: the
\* batch about to be sent holds the {error} result and the result of the next call
C13_Witness ==
    /\ pc = "dispatch"
    /\ Len(currentTurn.functionCalls) = 2
    /\ callIdx = 3
    /\ Len(functionResults) = 2
    /\ functionResults[1].kind = "error"
    /\ functionResults[1].name = "read_file"
    /\ functionResults[2].kind = "ok"

\* C10 (as claimed): a request performs at most MAX_TOOL_STEPS tool-dispatch steps and
\* sendToolResults calls, and when the model still requests tool calls after the 6th
\* step the loop stops and the response carries the step-limit notice.
C10_StepLimitAsClaimed ==
    /\ dispatchSteps <= MAX_TOOL_STEPS
    /\ sendCount <= MAX_TOOL_STEPS
    /\ (Responded /\ sendCount = MAX_TOOL_STEPS /\ currentTurn.functionCalls # <<>>)
          => HasNotice("step_limit")

\* C10 (amended): a request performs at most MAX_TOOL_STEPS tool-dispatch steps and
\* sendToolResults calls; when the model still requests tool calls after the 6th step
\* the loop stops without dispatching them, and the response carries the step-limit
\* notice unless an execute_command call was dispatched in the 6th step.
C10_StepLimit ==
    /\ dispatchSteps <= MAX_TOOL_STEPS
    /\ sendCount <= MAX_TOOL_STEPS
    /\ sendCount <= dispatchSteps
    /\ (sendCount = MAX_TOOL_STEPS /\ pc # "done") => (pc = "head" /\ step = MAX_TOOL_STEPS)
    /\ (Responded /\ sendCount = MAX_TOOL_STEPS /\ currentTurn.functionCalls # <<>>)
          => (HasNotice("step_limit") <=> ~sawExecuteCommand)

\* the model asked for more tool calls after the 6th step and got the step-limit notice
C10_Witness ==
    /\ Responded
    /\ sendCount = MAX_TOOL_STEPS
    /\ dispatchSteps = MAX_TOOL_STEPS
    /\ currentTurn.functionCalls # <<>>
    /\ HasNotice("step_limit")

\* C21 (as claimed): when a turn that requests tool calls arrives and the accumulated
\* text has reached the character budget, the loop stops without dispatching any of
\* that turn's tool calls and the response carries the character-limit notice.
C21_CharLimitAsClaimed ==
    /\ pc = "dispatch" => textChars < MAX_RESPONSE_CHARS
    /\ (Responded /\ currentTurn.functionCalls # <<>> /\ textChars >= MAX_RESPONSE_CHARS)
          => (functionResults = <<>> /\ HasNotice("char_limit"))

\* C21 (amended): tool calls are dispatched only while the accumulated text is below
\* the character budget; when a turn that requests tool calls arrives and the
\* accumulated text has reached the budget, the loop stops without dispatching them,
\* and the response carries the character-limit notice unless that turn is the one
\* returned after a step with an execute_command call.
C21_CharLimit ==
    /\ pc = "dispatch" => textChars < MAX_RESPONSE_CHARS
    /\ (Responded /\ currentTurn.functionCalls # <<>> /\ textChars >= MAX_RESPONSE_CHARS)
          => /\ functionResults = <<>>
             /\ HasNotice("char_limit") <=> ~sawExecuteCommand
             /\ stopReason = "char_limit" <=> ~sawExecuteCommand

\* two texts filled the budget and the second turn asked for tool calls: the loop
\* stopped after one dispatch step and the response carries the notice
C21_Witness ==
    /\ Responded
    /\ currentTurn.functionCalls # <<>>
    /\ textChars = MAX_RESPONSE_CHARS
    /\ dispatchSteps = 1
    /\ sendCount = 1
    /\ HasNotice("char_limit")

\* length of the notices and the collected texts of a response, joined, before the cut
JoinedLen ==
    join([i \in 1..Len(response.notices) |-> NoticeLen(response.notices[i])] \o textParts)

\* C22: the text content of every successful agent response is at most
\* MAX_RESPONSE_CHARS characters long, including any prepended notices, whatever
\* lengths of text the model returned.
C22_ContentWithinBudget ==
    Responded =>
        /\ response.len <= MAX_RESPONSE_CHARS
        /\ response.source = "text" => response.len <= JoinedLen

\* the model returned two texts of half the budget each and a notice was prepended:
\* the joined text is longer than the budget and the content is exactly the budget
C22_Witness ==
    /\ Responded
    /\ Len(textParts) = 2
    /\ response.notices # <<>>
    /\ JoinedLen > MAX_RESPONSE_CHARS
    /\ response.len = MAX_RESPONSE_CHARS

\* C23: whenever the accumulated model text is cut down to the character budget in
\* the final response, the response contains a prepended notice saying that a limit
\* was reached; text is never dropped silently.
C23_NoSilentCut ==
    (Responded /\ JoinedLen > MAX_RESPONSE_CHARS)
        => (HasNotice("char_limit") \/ HasNotice("step_limit"))

\* C24: the content of every successful agent response is non-empty: it is the
\* accumulated model text if that is non-empty, otherwise the fallback phrase set by
\* the dispatched tool calls, otherwise the default ready phrase.
C24_ContentNonEmpty ==
    Responded =>
        /\ response.len > 0
        /\ textChars > 0 => response.source = "text"
        /\ (textChars = 0 /\ fallbackText # "") =>
               (response.source = "fallback" /\ response.len = FallbackLen(fallbackText))
        /\ (textChars = 0 /\ fallbackText = "") =>
               (response.source = "default" /\ response.len = FallbackLen(""))

\* the tool names of a batch of results, in the order of the batch
BatchNames(results) == [i \in 1..Len(results) |-> results[i].name]

\* C25: in each step the loop dispatches the turn's tool calls one at a time in
\* emission order, a call starting only after the previous call has completed, and
\* the batch passed to sendToolResults contains exactly one result per requested
\* call, in the same order and with the same tool name.
C25_DispatchInOrder ==
    [][/\ pc = "dispatch" =>
             /\ callIdx = Len(functionResults) + 1
             /\ BatchNames(functionResults) =
                    SubSeq(currentTurn.functionCalls, 1, Len(functionResults))
       /\ (pc = "dispatch" /\ pc' = "dispatch") =>
             /\ currentTurn' = currentTurn
             /\ Len(functionResults') = Len(functionResults) + 1
             /\ SubSeq(functionResults', 1, Len(functionResults)) = functionResults
             /\ functionResults'[callIdx].name = currentTurn.functionCalls[callIdx]
             /\ Len(requests') - Len(requests) =
                    (IF currentTurn.functionCalls[callIdx] = "execute_command"
                     THEN 1 ELSE 0)
       /\ sendCount' # sendCount =>
             /\ pc = "dispatch"
             /\ sendCount' = sendCount + 1
             /\ BatchNames(functionResults) = currentTurn.functionCalls
      ]_vars

\* a turn asked for read_file and then execute_command: both calls have been
\* dispatched, the approval was requested by the second, and the batch is in order
C25_Witness ==
    /\ pc = "dispatch"
    /\ currentTurn.functionCalls = <<"read_file", "execute_command">>
    /\ callIdx = 3
    /\ BatchNames(functionResults) = <<"read_file", "execute_command">>
    /\ functionResults[2].kind = "pending"
    /\ Len(requests) = 1

\* ========================================================================
\* Properties of the execute endpoint
\* ========================================================================
\* the latest step was an execute request that supplied a command and a token
ExecuteAnswered == last.route = "execute" /\ last.approval_token # Missing /\ last.command # ""

\* C26: for an execute request that supplies a command and an approval token, the
\* endpoint answers {success: true, output} when the command ran, answers with status
\* 403 when the failure is a permission failure (unknown, reused or expired token),
\* and answers with status 500 for every other failure (non-zero exit, timeout).
C26_ExecuteStatus ==
    ExecuteAnswered =>
        /\ last.status \in {200, 403, 500}
        /\ last.status = 200 <=> (last.ran # "" /\ last.error = "")
        /\ last.status = 403 <=> last.tokenWas \in {"unknown", "gone", "expired"}
        /\ last.status = 500 <=> (last.tokenWas = "live" /\ last.error # "")

\* ========================================================================
\* Properties of handleToolCall
\* ========================================================================
\* the latest call was a read_file that returned the file to the model
ReadFileReturned == toolCall.name = "read_file" /\ toolCall.result.kind = "ok"

\* C27: for read_file on a file of n characters the model result satisfies: truncated
\* is true exactly when n > 20,000; the content is the first min(n, 20,000)
\* characters; totalChars = n; omittedChars = n - 20,000 when truncated and 0
\* otherwise, so content length + omittedChars = totalChars.
C27_ReadFileTruncation ==
    ReadFileReturned =>
        LET n == toolCall.fileChars
            r == toolCall.result
        IN /\ r.truncated <=> n > 20000
           /\ r.contentChars = Min(n, 20000)
           /\ r.totalChars = n
           /\ r.omittedChars = (IF r.truncated THEN n - 20000 ELSE 0)
           /\ r.contentChars + r.omittedChars = r.totalChars

\* a file one character longer than the limit was read: one character is omitted
C27_Witness ==
    /\ ReadFileReturned
    /\ toolCall.fileChars = 20001
    /\ toolCall.result.truncated
    /\ toolCall.result.omittedChars = 1
    /\ toolCall.result.contentChars = 20000

\* an empty, omitted or "." path argument
DefaultedPaths == {Undefined, <<>>, <<".">>}
\* the collaborator behind a tool that takes a path
CollaboratorOf(name) ==
    CASE name = "list_workspace_files" -> "workspaceList"
      [] name = "read_file" -> "workspaceRead"
      [] name = "get_git_status" -> "gitStatus"
      [] name = "get_git_diff" -> "gitDiff"

\* C30: an empty, omitted or "." path resolves to the workspace root for
\* list_workspace_files, get_git_status and get_git_diff, but for read_file
\* (defaulting disallowed) it fails with an error and no file is read.
C30_DefaultRoot ==
    /\ (resolveCall.called /\ resolveCall.maybePath \in DefaultedPaths) =>
          resolveCall.result =
             (IF resolveCall.allowDefaultRoot THEN PathOk(WORKSPACE_ROOT_REAL, <<>>)
              ELSE PathError(ErrPathRequired, <<>>))
    /\ (toolCall.name \in PathTools /\ toolCall.pathArg \in DefaultedPaths) =>
          IF toolCall.name = "read_file"
          THEN /\ toolCall.result.kind = "error"
               /\ toolCall.result.error = ErrPathRequired
               /\ toolCall.result.collabCalls = <<>>
               /\ toolCall.result.realpathCalls = <<>>
          ELSE /\ toolCall.result.kind = "ok"
               /\ toolCall.result.collabCalls =
                      <<[fn |-> CollaboratorOf(toolCall.name), path |-> WORKSPACE_ROOT_REAL]>>

\* read_file was called with the path "." and answered with the error
C30_Witness ==
    /\ toolCall.name = "read_file"
    /\ toolCall.pathArg = <<".">>
    /\ toolCall.fs.a = "file"
    /\ toolCall.result.kind = "error"
    /\ toolCall.result.error = ErrPathRequired

\* ========================================================================
\* Properties of the workspace inspector
\* ========================================================================
\* the depth a call of workspaceList works with
ListDepth == IF listCall.depth = NoDepth THEN 2 ELSE listCall.depth
\* a name the listing leaves out: hidden, or the dependency cache
Skipped(name) == name \in {".git", ".env", "node_modules"}
IsDirectory(node) == node.type = "directory"
\* the entries of a directory that are not left out by name and that exist
Listable(dir) == {dir.items[i] : i \in {k \in 1..Len(dir.items) :
                                          /\ ~Skipped(dir.items[k].name)
                                          /\ dir.items[k].stat = "ok"}}
Max(a, b) == IF a >= b THEN a ELSE b

\* no node of a tree has a name that the listing leaves out
RECURSIVE NoSkippedIn(_)
NoSkippedIn(tree) ==
    \A i \in 1..Len(tree) :
        /\ ~Skipped(tree[i].name)
        /\ IsDirectory(tree[i]) => NoSkippedIn(tree[i].children)

\* the number of levels of a tree
RECURSIVE Height(_), HeightFrom(_, _)
Height(tree) == IF tree = <<>> THEN 0 ELSE 1 + HeightFrom(tree, 1)
HeightFrom(tree, i) ==
    IF i > Len(tree) THEN 0
    ELSE Max(IF IsDirectory(tree[i]) THEN Height(tree[i].children) ELSE 0,
             HeightFrom(tree, i + 1))

\* tree holds every listable entry of dir, and so on below, as far as the
\* directories are traversed (read, and less than depth levels down)
RECURSIVE ContainsEntries(_, _, _, _)
ContainsEntries(dir, tree, level, depth) ==
    (level < depth /\ dir.read = "ok") =>
        \A item \in Listable(dir) :
            \E j \in 1..Len(tree) :
                /\ tree[j].name = item.name
                /\ tree[j].type = item.type
                /\ IsDirectory(item) =>
                       ContainsEntries(item, tree[j].children, level + 1, depth)

\* C28: a tree returned by workspaceList(path, depth) contains, at every level, no
\* entry whose name starts with "." or equals "node_modules" (whatever such
\* directories contain), contains every other entry of each traversed directory, and
\* has no node nested deeper than depth levels (default 2).
C28_ListedTree ==
    listCall.called =>
        /\ NoSkippedIn(listCall.tree)
        /\ ContainsEntries(listCall.dir, listCall.tree, 0, ListDepth)
        /\ Height(listCall.tree) <= ListDepth

\* a directory that cannot be read has an empty child list, and every entry outside
\* the entries that fail is in the tree
RECURSIVE FailuresContained(_, _, _, _)
FailuresContained(dir, tree, level, depth) ==
    IF level >= depth THEN tree = <<>>
    ELSE IF dir.read # "ok" THEN tree = <<>>
    ELSE \A i \in 1..Len(dir.items) :
            LET item == dir.items[i]
            IN (~Skipped(item.name) /\ item.stat = "ok") =>
                  \E j \in 1..Len(tree) :
                      /\ tree[j].name = item.name
                      /\ IF IsDirectory(item)
                         THEN FailuresContained(item, tree[j].children, level + 1, depth)
                         ELSE tree[j].size = item.size

\* C29: workspaceList never fails because of a traversal error: a failure while
\* reading one subtree yields an empty child list for that subtree only, and entries
\* outside the failing subtree are still returned.
C29_FailureContained ==
    listCall.called =>
        FailuresContained(listCall.dir, listCall.tree, 0, ListDepth)

\* C31: the step-limit notice is added to the response exactly when the step counter
\* reached the maximum without a natural stop, that is when the turn obtained after
\* the last permitted step still requests tool calls; a request whose last turn
\* requests no tool calls ends as a normal completion without a step-limit notice.
\* (The turn returned after an execute_command step is left to the rule of C10.)
C31_StepLimitNoticeExact ==
    Responded =>
        /\ currentTurn.functionCalls = <<>> => ~HasNotice("step_limit")
        /\ ~sawExecuteCommand =>
              (HasNotice("step_limit") <=>
                  (sendCount = MAX_TOOL_STEPS /\ currentTurn.functionCalls # <<>>))

\* C32: the text of every ModelTurn obtained from the session during a request (the
\* first turn and each turn returned by sendToolResults) is appended to the running
\* text buffer exactly once, in the order received, before the final truncation:
\* while the calls of a turn are dispatched and when the request is answered, the
\* buffer holds the texts received and ends with the text of the latest turn.
C32_EveryTurnTextCollected ==
    (pc = "dispatch" \/ Responded) =>
        /\ SumSeq(textParts) = textChars
        /\ currentTurn.text > 0 =>
              (textParts # <<>> /\ textParts[Len(textParts)] = currentTurn.text)
        /\ Len(textParts) <= sendCount + 1

\* C33 (as claimed): within one request, once an execute_command call has been
\* dispatched, no further tool call of any kind is dispatched in that request.
\* (In this specification approvals are requested only by the loop's execute_command
\* calls: the batch of the step holds the results of the calls dispatched so far.)
C33_NothingAfterExecuteAsClaimed ==
    (Len(requests) > 0 /\ pc = "dispatch") =>
        /\ functionResults # <<>>
        /\ functionResults[Len(functionResults)].name = "execute_command"
        /\ Len(requests) = 1

\* C33 (amended): once an execute_command call has been dispatched, no tool call of
\* a later step is dispatched in that request; the calls that follow it in the same
\* turn are still dispatched, and the loop ends when their results have been sent.
C33_NoStepAfterExecute ==
    Len(requests) > 0 =>
        /\ pc \in {"dispatch", "done"}
        /\ pc = "dispatch" =>
              /\ \E i \in 1..Len(functionResults) :
                     functionResults[i].name = "execute_command"
              /\ dispatchSteps = sendCount + 1
        /\ pc = "done" => sendCount = dispatchSteps

\* a turn asked for execute_command and then read_file: read_file was dispatched
\* after the approval request, in the same step, and the request has ended
C33_Witness ==
    /\ pc = "done"
    /\ Len(requests) = 1
    /\ currentTurn.functionCalls # <<>>
    /\ fallbackText = "Here's the file:"
    /\ sendCount = dispatchSteps
    /\ sendCount = 2

\* the identifiers that a sendToolResults request carries for its results, in the order
\* of the results: the tool_call_id of the trailing "tool" messages (OpenAI), or the
\* tool_use_id of the blocks of the trailing user message (Anthropic)
TagsOf(entry) ==
    LET k == Len(entry.results)
        n == Len(entry.request)
    IN IF entry.kind = "openai"
       THEN [i \in 1..k |-> entry.request[n - k + i].tool_call_id]
       ELSE [i \in 1..Len(entry.request[n].blocks) |-> entry.request[n].blocks[i].id]
ToolRounds == {n \in 2..Len(vendorLog) : vendorLog[n].via = "sendToolResults"}

\* C34: in the OpenAI-compatible and Anthropic adapters, the request that
\* sendToolResults makes carries one tagged result for each submitted result, and the
\* i-th of them carries the identifier the vendor emitted for the i-th tool call of the
\* most recent assistant turn and the JSON text of the i-th result, for every i.
C34_ResultsCorrelated ==
    \A n \in ToolRounds :
        LET entry == vendorLog[n]
            k == Len(entry.results)
            m == Len(entry.request)
        IN /\ vendorLog[n - 1].ok
           /\ Len(TagsOf(entry)) = k
           /\ TagsOf(entry) = vendorLog[n - 1].ids
           /\ \A i \in 1..k :
                 IF entry.kind = "openai"
                 THEN /\ entry.request[m - k + i].role = "tool"
                      /\ entry.request[m - k + i].content
                            = JSONstringify(entry.results[i].result)
                 ELSE /\ entry.request[m].role = "user"
                      /\ entry.request[m].blocks[i].type = "tool_result"
                      /\ entry.request[m].blocks[i].content
                            = JSONstringify(entry.results[i].result)

\* the second tool round of an Anthropic session submits two results for a turn whose
\* tool_use blocks follow a text block
C34_Witness ==
    /\ Len(vendorLog) >= 3
    /\ LET n == Len(vendorLog)
       IN /\ vendorLog[n].via = "sendToolResults"
          /\ vendorLog[n - 1].via = "sendToolResults"
          /\ vendorLog[n].kind = "anthropic"
          /\ Len(vendorLog[n].results) = 2
          /\ vendorLog[n].results[1].name # vendorLog[n].results[2].name
          /\ LET sent == vendorLog[n].request
             IN sent[Len(sent) - 1].blocks[1].type = "text"
          /\ TagsOf(vendorLog[n]) = vendorLog[n - 1].ids
          /\ vendorLog[n - 1].ids[1] > 1

\* the transcript a session sends with the user's message, written out: the system
\* prompt (OpenAI-compatible sessions), the entries of the history with the role of
\* every entry that is not the user's turned into "assistant", and the user's message
FirstTranscript(kind, h) ==
    LET converted == [i \in 1..Len(h) |->
                         [role |-> IF h[i].role = "user" THEN "user" ELSE "assistant",
                          content |-> h[i].content, blocks |-> <<>>, tool_call_id |-> 0]]
        user == [role |-> "user", content |-> "run the tests", blocks |-> <<>>,
                 tool_call_id |-> 0]
        system == [role |-> "system", content |-> "You are the workspace agent", blocks |-> <<>>,
                   tool_call_id |-> 0]
    IN IF kind = "openai"
       THEN <<system>> \o converted \o <<user>>
       ELSE converted \o <<user>>

\* C40: every session that createChatWithFallback attempts sends the vendor a
\* transcript made of the caller's history followed by the one user message, whatever
\* attempts failed before it, and the caller's history is the same after every
\* attempt; nothing of a failed attempt is in a later attempt's transcript.
C40_AttemptsIsolated ==
    /\ history \in Histories
    /\ \A n \in 1..Len(vendorLog) :
          vendorLog[n].via = "sendMessage" =>
              /\ vendorLog[n].request = FirstTranscript(vendorLog[n].kind, history)
              /\ \A j \in 1..(n - 1) : ~vendorLog[j].ok

\* a session is attempted after a failed attempt of the same family, on a history of
\* two entries, and answers
C40_Witness ==
    /\ Len(vendorLog) = 2
    /\ ~vendorLog[1].ok
    /\ vendorLog[2].ok
    /\ vendorLog[1].kind = vendorLog[2].kind
    /\ Len(history) = 2
    /\ vendorLog[2].request = vendorLog[1].request
    /\ chatPc = "chat"

\* the directories on or under the workspace root
OnOrUnderWorkspaceRoot(dir) == dir \in {WorkspaceRoot, "/workspace/web"}

\* C35: every command that runTerminal runs is run in a working directory that lies on
\* or under the workspace root.
C35_WorkDirUnderRoot ==
    \A i \in 1..Len(execLog) : OnOrUnderWorkspaceRoot(execLog[i].cwd)

\* every node of a tree stands for an entry that is, after symbolic links are
\* followed, inside the workspace root, and so on below
RECURSIVE ListedInside(_, _)
ListedInside(dir, tree) ==
    \A j \in 1..Len(tree) :
        \E i \in 1..Len(dir.items) :
            /\ dir.items[i].name = tree[j].name
            /\ dir.items[i].target = "inside"
            /\ IsDirectory(tree[j]) => ListedInside(dir.items[i], tree[j].children)

\* C36: every entry of a tree returned by list_workspace_files denotes a file or
\* directory that lies, after symlink resolution, on or under the workspace root, also
\* when symbolic links to places outside the root lie below the listed directory.
C36_ListedInsideRoot ==
    listCall.called => ListedInside(listCall.dir, listCall.tree)

\* C38: a token is consumed before its command runs.  The token of every command that
\* was run is gone from activeTokens and the request id it was granted for is not
\* pending, whether the command succeeded or failed; no token and no request id has
\* more than one run; and when a run has just failed, its token is gone and its
\* request id is granted, never pending again.
C38_ConsumedBeforeRun ==
    /\ \A i \in 1..Len(execLog) :
          LET t == execLog[i].token
          IN /\ t \in 1..Len(issued)
             /\ t \notin DOMAIN activeTokens
             /\ issued[t].requestId \notin DOMAIN pendingApprovals
             /\ \A j \in 1..Len(execLog) :
                   j # i => /\ execLog[j].token # t
                            /\ issued[execLog[j].token].requestId # issued[t].requestId
    /\ (last.route = "execute" /\ last.ran # "" /\ last.status # 200) =>
          /\ TokenState(last.approval_token) = "gone"
          /\ IdState(issued[last.approval_token].requestId) = "granted"

\* an approved command has just failed under a live token, which is gone
C38_Witness ==
    /\ last.route = "execute"
    /\ last.tokenWas = "live"
    /\ last.ran = "npm test"
    /\ last.status = 500
    /\ execLog # <<>>
    /\ execLog[Len(execLog)].token = last.approval_token
    /\ last.approval_token \notin DOMAIN activeTokens

\* C39: a token that no runTerminal call has presented is still stored in
\* activeTokens as it was minted, however long after its expiry and whatever timers
\* have run; and a presentation made after the token's expiry runs nothing and is
\* answered 403.
C39_StoredUntilPresented ==
    /\ \A t \in 1..Len(issued) :
          t \notin presented => (t \in DOMAIN activeTokens /\ activeTokens[t] = issued[t])
    /\ (/\ last.route = "execute"
        /\ last.approval_token \in 1..Len(issued)
        /\ last.command # ""
        /\ now > issued[last.approval_token].expires) =>
          /\ last.ran = ""
          /\ last.status = 403

\* a granted token that was never presented is still stored after its expiry, after
\* the 5-minute timer of its request has run
C39_Witness ==
    /\ timers = {}
    /\ now >= PendingTimeoutMs
    /\ \E t \in DOMAIN activeTokens :
          /\ now > activeTokens[t].expires + TokenTtlMs
          /\ t \notin presented

\* m2 is m1 but for the entry of key k
SameBut(m1, m2, k) ==
    /\ (DOMAIN m1) \ {k} = (DOMAIN m2) \ {k}
    /\ \A x \in (DOMAIN m1) \ {k} : m2[x] = m1[x]

\* C37: a successful grantApproval(id) removes the pending entry of id, changes no
\* other pending entry and adds exactly one new token, changing no stored token;
\* runTerminal(token) changes no pending entry and no token but the one presented; a
\* timer callback of id removes the pending entry of id only, and nothing when id was
\* granted; a failed grant and a run with an unknown token change neither registry;
\* requestApproval adds one pending entry and changes nothing else.
C37_Frame ==
    [][LET op == last'
       IN /\ (op.route = "approve" /\ op.status = 200) =>
                /\ op.request_id \in DOMAIN pendingApprovals
                /\ pendingApprovals' = MapDelete(pendingApprovals, op.request_id)
                /\ op.minted \notin DOMAIN activeTokens
                /\ DOMAIN activeTokens' = (DOMAIN activeTokens) \cup {op.minted}
                /\ SameBut(activeTokens, activeTokens', op.minted)
          /\ (op.route = "approve" /\ op.status # 200) =>
                /\ pendingApprovals' = pendingApprovals
                /\ activeTokens' = activeTokens
          /\ op.route = "execute" =>
                /\ pendingApprovals' = pendingApprovals
                /\ SameBut(activeTokens, activeTokens', op.approval_token)
                /\ op.approval_token \notin DOMAIN activeTokens' \/ op.status = 400
                /\ op.approval_token \notin DOMAIN activeTokens =>
                       activeTokens' = activeTokens
          /\ op.route = "tool" =>
                /\ op.request_id \notin DOMAIN pendingApprovals
                /\ DOMAIN pendingApprovals' = (DOMAIN pendingApprovals) \cup {op.request_id}
                /\ SameBut(pendingApprovals, pendingApprovals', op.request_id)
                /\ activeTokens' = activeTokens
          /\ (op.route = "none" /\ timers' # timers) =>
                \E tm \in timers \ timers' :
                    /\ timers' = timers \ {tm}
                    /\ pendingApprovals' = MapDelete(pendingApprovals, tm.requestId)
                    /\ SameBut(pendingApprovals, pendingApprovals', tm.requestId)
                    /\ Granted(tm.requestId) => pendingApprovals' = pendingApprovals
                    /\ activeTokens' = activeTokens
          /\ (op.route = "none" /\ timers' = timers) =>
                /\ pendingApprovals' = pendingApprovals
                /\ activeTokens' = activeTokens
      ]_vars

\* the second request has just been granted while the token of the first request is
\* stored: the grant minted token 2 and left token 1 as it was
C37_Witness ==
    /\ last.route = "approve"
    /\ last.status = 200
    /\ last.request_id = 2
    /\ last.minted = 2
    /\ DOMAIN activeTokens = {1, 2}
    /\ activeTokens[1] = issued[1]
    /\ pendingApprovals = EmptyMap
====
